---- MODULE Spec2Model ----
(***************************************************************************)
(* Template marker protocol and draft round-trip engine of mrm_deepagent:  *)
(* marker grammar, section ranges, the two apply engines (markdown, docx), *)
(* the draft codec, and the generation orchestrator with its retry /       *)
(* timeout / payload-shape wrapper.                                         *)
(*                                                                         *)
(* Text is a sequence of symbols.  A symbol stands for one lexeme of the   *)
(* source text: "nl" a newline, "sp" a blank, "x" a plain character, "T"   *)
(* the literal [[SECTION_CONTENT]], "C1"/"C2" the literals [[CHECK:k1]] /  *)
(* [[CHECK:k2]], "on"/"off" the glyphs U+2612 / U+2610, "M" the applied    *)
(* marker, "U" the UNRESOLVED notice sentence, "k1"/"k2" a checkbox name,  *)
(* ":" a colon, and "hXyz" a whole markdown heading line (what _HEADING_RE *)
(* matches) or the text of a docx heading paragraph.                       *)
(***************************************************************************)
EXTENDS Integers, Sequences, FiniteSets, TLC

VARIABLES
    \* ---- apply engine (file system seen by apply) ----
    fmt,        \* template format of the run: "markdown" | "docx" | "none"
    tmpl,       \* content of the template file (text, or list of blocks)
    out,        \* destination file: [exists, content]
    res,        \* outcome of the last apply: "none" | "ok" | "already_applied" | "unsupported"
    report,     \* ApplyReport.unresolved_section_ids of the last successful apply
    lastDraft,  \* the draft passed to the last apply
    lastForce,  \* the force flag passed to the last apply
    applied,    \* tmpl is the output of an earlier successful apply
    \* ---- generation orchestrator and runtime wrapper ----
    gen,        \* generate_draft: [pc, idx, sections, calls, result]
    rt,         \* invoke_with_retry: [pc, attempt, retries, last_error, started, outcome, slept]
    cache,      \* AgentRuntime._payload_format: "none" or a payload label
    writes,     \* history: every assignment made to _payload_format, in order
    threads,    \* one record per _invoke_once execution (worker thread)
    \* ---- draft codec ----
    codec,      \* [pc, draft, text, parsed]
    \* ---- template parser and validator ----
    tp,         \* [pc, format, template, sections, parser_errors, errors]
    \* ---- context store of missing items ----
    store,      \* [file, before, existing, new, merged, runs]
    \* ---- heading marker parser called on its own ----
    mk          \* [pc, heading, fallback_fill, before, used_ids, result]

applyVars == <<fmt, tmpl, out, res, report, lastDraft, lastForce, applied>>
genVars   == <<gen, rt, cache, writes, threads>>
vars      == <<fmt, tmpl, out, res, report, lastDraft, lastForce, applied,
               gen, rt, cache, writes, threads, codec, tp, store, mk>>

(***************************************************************************)
(* Bounds of the model.                                                    *)
(***************************************************************************)
MaxSections == 2      \* sections in a template
MaxDraft    == 2      \* sections in a draft passed to apply

(***************************************************************************)
(* Generic string helpers (Python str semantics on symbol sequences).      *)
(***************************************************************************)
Contains(text, sym) == \E i \in 1..Len(text) : text[i] = sym

\* Python slice text[s:e] with 0 <= s; offsets are Python's 0-based offsets.
Slice(text, s, e) ==
    LET hi == IF e > Len(text) THEN Len(text) ELSE e
    IN  IF s >= hi THEN <<>> ELSE SubSeq(text, s + 1, hi)

IsSpace(c) == c \in {"nl", "sp"}

RECURSIVE LStrip(_)
LStrip(text) ==
    IF text = <<>> THEN <<>>
    ELSE IF IsSpace(Head(text)) THEN LStrip(Tail(text)) ELSE text

RECURSIVE RStrip(_)
RStrip(text) ==
    IF text = <<>> THEN <<>>
    ELSE IF IsSpace(text[Len(text)]) THEN RStrip(SubSeq(text, 1, Len(text) - 1))
    ELSE text

\* str.strip()
Strip(text) == RStrip(LStrip(text))

\* str.replace(tok, repl) where tok is one symbol.
RECURSIVE Replace(_, _, _)
Replace(text, tok, repl) ==
    IF text = <<>> THEN <<>>
    ELSE (IF Head(text) = tok THEN repl ELSE <<Head(text)>>) \o Replace(Tail(text), tok, repl)

\* "sep".join(parts)
RECURSIVE Join(_, _)
Join(parts, sep) ==
    IF parts = <<>> THEN <<>>
    ELSE IF Len(parts) = 1 THEN parts[1]
    ELSE parts[1] \o sep \o Join(Tail(parts), sep)

\* Number of occurrences of a symbol.
RECURSIVE Count(_, _)
Count(text, sym) ==
    IF text = <<>> THEN 0
    ELSE (IF Head(text) = sym THEN 1 ELSE 0) + Count(Tail(text), sym)

(***************************************************************************)
(* Lexemes.                                                                *)
(***************************************************************************)
SECTION_CONTENT_TOKEN == "T"
APPLIED_MARKER        == "M"
CheckTokens           == {"C1", "C2"}
\* group(1) of _CHECKBOX_RE on a checkbox token
CheckTokenName(sym)   == IF sym = "C1" THEN "k1" ELSE "k2"
\* the literal "[[CHECK:" + name + "]]"
CheckTokenOf(name)    == IF name = "k1" THEN "C1" ELSE "C2"

\* Heading lines of the model.  Each stands for a concrete heading text:
\*   hFa  "[FILL][ID:a] Alpha"        hFb  "[FILL][ID:b] Beta"
\*   hSc  "[SKIP][ID:c] Gamma"        hVa  "[VALIDATOR][ID:a] Alpha check"
\*   hN   "Notes" (no tag at all)     hFt  "[FILL] Alpha" (no id tag)
\*   hE   "" (blank heading text; docx only)
\*   hFm  "[FILL][ID bad] Mu" (an id tag without its colon)
HeadingSyms == {"hFa", "hFb", "hSc", "hVa", "hN", "hFt", "hE", "hFm"}
IsHeadingSym(sym) == sym \in HeadingSyms

(***************************************************************************)
(* Marker grammar (marker_utils.py).  A section id is a sequence of parts  *)
(* joined by "_" in the source string: <<"a">> is "a", <<"a","2">> "a_2".  *)
(***************************************************************************)
\* _SECTION_TYPE_RE.search(raw): the kind tag found in the heading, if any
HeadingTag(h) ==
    CASE h \in {"hFa", "hFb", "hFt", "hFm"} -> "fill"
      [] h = "hSc"                   -> "skip"
      [] h = "hVa"                   -> "validator"
      [] OTHER                       -> "none"

\* _extract_id: group(1) of _SECTION_ID_RE, lower-cased; <<>> when there is no tag
extract_id(h) ==
    CASE h \in {"hFa", "hVa"} -> <<"a">>
      [] h = "hFb"            -> <<"b">>
      [] h = "hSc"            -> <<"c">>
      [] OTHER                -> <<>>

\* _clean_title: heading text without bracketed tokens
clean_title(h) ==
    CASE h \in {"hFa", "hFt"} -> "A"
      [] h = "hFb"            -> "B"
      [] h = "hSc"            -> "C"
      [] h = "hVa"            -> "A check"
      [] h = "hN"             -> "Notes"
      [] h = "hFm"            -> "Mu"
      [] OTHER                -> "Untitled Section"

\* _slugify of a clean title
slugify(title) ==
    CASE title = "A"       -> <<"a">>
      [] title = "B"       -> <<"b">>
      [] title = "C"       -> <<"c">>
      [] title = "A check" -> <<"a", "check">>
      [] title = "Notes"   -> <<"notes">>
      [] title = "Mu"      -> <<"mu">>
      [] OTHER             -> <<"section">>

\* _extract_section_type
extract_section_type(h, fallback_fill) ==
    IF HeadingTag(h) # "none" THEN HeadingTag(h)
    ELSE IF fallback_fill THEN "fill" ELSE "none"

\* the while loop of _dedupe_id
RECURSIVE DedupeFrom(_, _, _)
DedupeFrom(section_id, used_ids, suffix) ==
    IF Append(section_id, ToString(suffix)) \in used_ids
    THEN DedupeFrom(section_id, used_ids, suffix + 1)
    ELSE Append(section_id, ToString(suffix))

\* dedupe_id that returns the candidate even when it is taken
dedupe_id_NoSuffix(section_id, used_ids) == section_id

\* _dedupe_id
dedupe_id(section_id, used_ids) ==
    IF section_id \notin used_ids THEN section_id
    ELSE DedupeFrom(section_id, used_ids, 2)

\* parse_heading_marker that does not register the id it returns
parse_heading_marker_NoRegister(h, fallback_fill, used_ids) ==
    LET none == [ok |-> FALSE, section_type |-> "none", section_id |-> <<>>,
                 title |-> "", used_ids |-> used_ids]
    IN  IF h = "hE" THEN none
        ELSE IF extract_section_type(h, fallback_fill) = "none" THEN none
        ELSE LET explicit_id == extract_id(h)
                 section_id  == IF explicit_id # <<>> THEN explicit_id
                                ELSE dedupe_id(slugify(clean_title(h)), used_ids)
             IN  [ok |-> TRUE,
                  section_type |-> extract_section_type(h, fallback_fill),
                  section_id |-> section_id,
                  title |-> clean_title(h),
                  used_ids |-> used_ids]

\* parse_heading_marker: [ok, section_type, section_id, title, used_ids];
\* used_ids is the caller's set after the call.
parse_heading_marker(h, fallback_fill, used_ids) ==
    LET none == [ok |-> FALSE, section_type |-> "none", section_id |-> <<>>,
                 title |-> "", used_ids |-> used_ids]
    IN  IF h = "hE" THEN none
        ELSE IF extract_section_type(h, fallback_fill) = "none" THEN none
        ELSE LET explicit_id == extract_id(h)
                 section_id  == IF explicit_id # <<>> THEN explicit_id
                                ELSE dedupe_id(slugify(clean_title(h)), used_ids)
             IN  [ok |-> TRUE,
                  section_type |-> extract_section_type(h, fallback_fill),
                  section_id |-> section_id,
                  title |-> clean_title(h),
                  used_ids |-> used_ids \cup {section_id}]

(***************************************************************************)
(* Shared pieces of the two appliers.                                      *)
(***************************************************************************)
\* checkbox_map = {checkbox.name: checkbox.checked ...}.get(name, False):
\* the last entry of a name wins, a name with no entry is False.
RECURSIVE CheckboxLookup(_, _)
CheckboxLookup(checkboxes, name) ==
    IF checkboxes = <<>> THEN FALSE
    ELSE LET last == checkboxes[Len(checkboxes)]
         IN  IF last.name = name THEN last.checked
             ELSE CheckboxLookup(SubSeq(checkboxes, 1, Len(checkboxes) - 1), name)

\* _replace_checkbox_tokens (identical in both appliers)
RECURSIVE replace_checkbox_tokens(_, _)
replace_checkbox_tokens(text, checkboxes) ==
    IF text = <<>> THEN <<>>
    ELSE (IF Head(text) \in CheckTokens
          THEN (IF CheckboxLookup(checkboxes, CheckTokenName(Head(text)))
                THEN <<"on">> ELSE <<"off">>)
          ELSE <<Head(text)>>)
         \o replace_checkbox_tokens(Tail(text), checkboxes)

\* the lines "name: [[CHECK:name]]"
CheckboxLines(checkboxes) ==
    [i \in 1..Len(checkboxes) |->
        <<checkboxes[i].name, ":", "sp", CheckTokenOf(checkboxes[i].name)>>]

\* replacement_text of _replace_section_body (same composition in both appliers)
ReplacementText(section) ==
    Strip(section.body)
    \o (IF section.checkboxes # <<>>
        THEN <<"nl", "nl">> \o Join(CheckboxLines(section.checkboxes), <<"nl">>)
        ELSE <<>>)
    \o (IF section.status = "partial" THEN <<"nl", "nl", "U">> ELSE <<>>)

\* fill_ranges = {section_id: range for FILL ranges}.get(id): the last FILL
\* range of an id wins; 0 when the id has no FILL range, else its index.
FillRangeIndex(ranges, id) ==
    LET hits == {i \in 1..Len(ranges) :
                    ranges[i].section_type = "fill" /\ ranges[i].section_id = id}
    IN  IF hits = {} THEN 0 ELSE CHOOSE i \in hits : \A j \in hits : j <= i

\* UnresolvedIds that lists every partial draft section, matched or not
RECURSIVE UnresolvedIds_AllPartial(_, _)
UnresolvedIds_AllPartial(ranges, sections) ==
    IF sections = <<>> THEN <<>>
    ELSE (IF Head(sections).status = "partial" THEN <<Head(sections).id>> ELSE <<>>)
         \o UnresolvedIds_AllPartial(ranges, Tail(sections))

\* the ids appended to unresolved_ids by the apply loop, in draft order
RECURSIVE UnresolvedIds(_, _)
UnresolvedIds(ranges, sections) ==
    IF sections = <<>> THEN <<>>
    ELSE (IF FillRangeIndex(ranges, Head(sections).id) # 0
             /\ Head(sections).status = "partial"
          THEN <<Head(sections).id>> ELSE <<>>)
         \o UnresolvedIds(ranges, Tail(sections))

(***************************************************************************)
(* Markdown applier (markdown_applier.py).                                 *)
(***************************************************************************)
\* _HEADING_RE.finditer(text): 1-based positions of the heading lines
RECURSIVE HeadingMatchesFrom(_, _)
HeadingMatchesFrom(text, i) ==
    IF i > Len(text) THEN <<>>
    ELSE (IF IsHeadingSym(text[i]) THEN <<i>> ELSE <<>>) \o HeadingMatchesFrom(text, i + 1)

HeadingMatches(text) == HeadingMatchesFrom(text, 1)

\* loop of markdown _collect_section_ranges; offsets are Python offsets:
\* match.start() = p - 1 and match.end() = p for a heading at position p.
RECURSIVE MdRangesFrom(_, _, _, _)
MdRangesFrom(text, hm, idx, used_ids) ==
    IF idx > Len(hm) THEN <<>>
    ELSE LET parsed == parse_heading_marker(text[hm[idx]], FALSE, used_ids)
         IN  IF ~parsed.ok THEN MdRangesFrom(text, hm, idx + 1, parsed.used_ids)
             ELSE <<[section_type |-> parsed.section_type,
                     section_id   |-> parsed.section_id,
                     body_start   |-> hm[idx],
                     body_end     |-> IF idx + 1 <= Len(hm) THEN hm[idx + 1] - 1
                                      ELSE Len(text)]>>
                  \o MdRangesFrom(text, hm, idx + 1, parsed.used_ids)

md_collect_section_ranges(text) == MdRangesFrom(text, HeadingMatches(text), 1, {})

\* markdown _replace_section_body: [ok, text]
md_replace_section_body(existing_body, section, require_token) ==
    IF ~Contains(existing_body, SECTION_CONTENT_TOKEN)
    THEN IF ~require_token THEN [ok |-> TRUE, text |-> existing_body]
         ELSE [ok |-> FALSE, text |-> <<>>]
    ELSE [ok |-> TRUE,
          text |-> replace_checkbox_tokens(
                      Replace(existing_body, SECTION_CONTENT_TOKEN, ReplacementText(section)),
                      section.checkboxes)]

\* the for loop over draft.sections: the list of (start, end, value), or
\* failure at the first section whose body lacks the required token.
RECURSIVE MdReplacements(_, _, _, _)
MdReplacements(source_text, ranges, sections, require_token) ==
    IF sections = <<>> THEN [ok |-> TRUE, list |-> <<>>]
    ELSE LET section == Head(sections)
             ti      == FillRangeIndex(ranges, section.id)
             rest    == MdReplacements(source_text, ranges, Tail(sections), require_token)
         IN  IF ti = 0 THEN rest
             ELSE LET target == ranges[ti]
                      body   == md_replace_section_body(
                                    Slice(source_text, target.body_start, target.body_end),
                                    section, require_token)
                  IN  IF ~body.ok THEN [ok |-> FALSE, list |-> <<>>]
                      ELSE IF ~rest.ok THEN rest
                      ELSE [ok |-> TRUE,
                            list |-> <<[start |-> target.body_start,
                                        end   |-> target.body_end,
                                        value |-> body.text]>> \o rest.list]

\* sorted(replacements, key=start, reverse=True): stable, so entries with the
\* same start keep their draft order.
RECURSIVE InsertByStartDesc(_, _)
InsertByStartDesc(sorted, item) ==
    IF sorted = <<>> THEN <<item>>
    ELSE IF Head(sorted).start >= item.start
         THEN <<Head(sorted)>> \o InsertByStartDesc(Tail(sorted), item)
         ELSE <<item>> \o sorted

RECURSIVE SortedByStartDesc(_)
SortedByStartDesc(list) ==
    IF list = <<>> THEN <<>>
    ELSE InsertByStartDesc(SortedByStartDesc(SubSeq(list, 1, Len(list) - 1)), list[Len(list)])

\* output_text = output_text[:start] + value + output_text[end:] for each entry
RECURSIVE SpliceAll(_, _)
SpliceAll(output_text, list) ==
    IF list = <<>> THEN output_text
    ELSE SpliceAll(Slice(output_text, 0, Head(list).start) \o Head(list).value
                       \o Slice(output_text, Head(list).end, Len(output_text)),
                   Tail(list))

\* MdFinish with the marker line left out
MdFinish_NoMarker(output_text) ==
    IF output_text = <<>> \/ output_text[Len(output_text)] # "nl"
    THEN output_text \o <<"nl">> ELSE output_text

\* the tail of apply_draft_to_markdown_template: newline fix-up and marker
MdFinish(output_text) ==
    (IF output_text = <<>> \/ output_text[Len(output_text)] # "nl"
     THEN output_text \o <<"nl">> ELSE output_text)
    \o <<"nl", APPLIED_MARKER, "nl">>

\* apply_draft_to_markdown_template as a function of its inputs:
\* [status, written, text, unresolved]
apply_draft_to_markdown_template(source_text, draft, force) ==
    LET already_applied == Contains(source_text, APPLIED_MARKER)
        ranges          == md_collect_section_ranges(source_text)
        repl            == MdReplacements(source_text, ranges, draft,
                                          ~(force /\ already_applied))
    IN  IF already_applied /\ ~force
        THEN [status |-> "already_applied", written |-> FALSE, text |-> <<>>,
              unresolved |-> <<>>]
        ELSE IF ~repl.ok
        THEN [status |-> "unsupported", written |-> FALSE, text |-> <<>>,
              unresolved |-> <<>>]
        ELSE [status |-> "ok", written |-> TRUE,
              text |-> MdFinish(SpliceAll(source_text, SortedByStartDesc(repl.list))),
              unresolved |-> UnresolvedIds(ranges, draft)]

(***************************************************************************)
(* DOCX applier (docx_applier.py).  A document is the list of its body     *)
(* blocks (iter_block_items); a block is a paragraph (with its style and   *)
(* text) or a table, whose cells lists the texts of its cell paragraphs in *)
(* iter_table_paragraphs order.  A paragraph of a body range is addressed  *)
(* as <<block index, cell index>>, cell index 0 for a paragraph block.     *)
(***************************************************************************)
Para(text)     == [table |-> FALSE, heading |-> FALSE, text |-> text, cells |-> <<>>]
HeadingPara(h) == [table |-> FALSE, heading |-> TRUE, text |-> <<h>>, cells |-> <<>>]
TableOf(cells) == [table |-> TRUE, heading |-> FALSE, text |-> <<>>, cells |-> cells]

\* _is_heading on a block that is a Paragraph
is_heading(block) == ~block.table /\ block.heading

\* _document_contains_marker
document_contains_marker(blocks, marker) ==
    \E i \in 1..Len(blocks) :
        IF blocks[i].table
        THEN \E c \in 1..Len(blocks[i].cells) : Contains(blocks[i].cells[c], marker)
        ELSE Contains(blocks[i].text, marker)

\* heading_positions: 0-based indexes of the heading paragraphs, ascending
RECURSIVE HeadingPositionsFrom(_, _)
HeadingPositionsFrom(blocks, i) ==
    IF i > Len(blocks) THEN <<>>
    ELSE (IF is_heading(blocks[i]) THEN <<i - 1>> ELSE <<>>)
         \o HeadingPositionsFrom(blocks, i + 1)

\* NextHeading that lets every section run to the end of the document
NextHeading_EndOfDocument(heading_positions, heading_idx, nblocks) == nblocks

\* next(position for position in heading_positions if position > idx, len(blocks))
NextHeading(heading_positions, heading_idx, nblocks) ==
    LET later == {k \in 1..Len(heading_positions) : heading_positions[k] > heading_idx}
    IN  IF later = {} THEN nblocks
        ELSE heading_positions[CHOOSE k \in later : \A j \in later : k <= j]

\* both loops of docx _collect_section_ranges, block indexes 0-based as in the source
RECURSIVE DocxRangesFrom(_, _, _, _)
DocxRangesFrom(blocks, hp, k, used_ids) ==
    IF k > Len(hp) THEN <<>>
    ELSE LET parsed == parse_heading_marker(blocks[hp[k] + 1].text[1], TRUE, used_ids)
         IN  IF ~parsed.ok THEN DocxRangesFrom(blocks, hp, k + 1, parsed.used_ids)
             ELSE <<[section_type        |-> parsed.section_type,
                     section_id          |-> parsed.section_id,
                     heading_block_index |-> hp[k],
                     body_start_block    |-> hp[k] + 1,
                     body_end_block      |-> NextHeading(hp, hp[k], Len(blocks))]>>
                  \o DocxRangesFrom(blocks, hp, k + 1, parsed.used_ids)

docx_collect_section_ranges(blocks) ==
    DocxRangesFrom(blocks, HeadingPositionsFrom(blocks, 1), 1, {})

\* _body_paragraphs: addresses of the paragraphs of blocks[body_start:body_end]
RECURSIVE BodyParagraphsFrom(_, _, _)
BodyParagraphsFrom(blocks, i, end) ==
    IF i > end \/ i > Len(blocks) THEN <<>>
    ELSE (IF blocks[i].table
          THEN [c \in 1..Len(blocks[i].cells) |-> <<i, c>>]
          ELSE <<<<i, 0>>>>)
         \o BodyParagraphsFrom(blocks, i + 1, end)

body_paragraphs(blocks, target) ==
    BodyParagraphsFrom(blocks, target.body_start_block + 1, target.body_end_block)

ParaText(blocks, addr) ==
    IF addr[2] = 0 THEN blocks[addr[1]].text ELSE blocks[addr[1]].cells[addr[2]]

\* paragraph.text = text
SetParaText(blocks, addr, text) ==
    IF addr[2] = 0
    THEN [blocks EXCEPT ![addr[1]].text = text]
    ELSE [blocks EXCEPT ![addr[1]].cells[addr[2]] = text]

\* find_section_content_target that always takes the first body paragraph
find_section_content_target_First(blocks, paragraphs) == 1

\* _find_section_content_target: index into the list of body paragraphs
find_section_content_target(blocks, paragraphs) ==
    LET withToken == {i \in 1..Len(paragraphs) :
                         Contains(ParaText(blocks, paragraphs[i]), SECTION_CONTENT_TOKEN)}
        nonBlank  == {i \in 1..Len(paragraphs) :
                         Strip(ParaText(blocks, paragraphs[i])) # <<>>}
    IN  IF withToken # {} THEN CHOOSE i \in withToken : \A j \in withToken : i <= j
        ELSE IF nonBlank # {} THEN CHOOSE i \in nonBlank : \A j \in nonBlank : i <= j
        ELSE 1

\* docx _replace_section_body: [ok, blocks]
docx_replace_section_body(blocks, target, section) ==
    LET paragraphs == body_paragraphs(blocks, target)
    IN  IF paragraphs = <<>> THEN [ok |-> FALSE, blocks |-> blocks]
        ELSE LET addr == paragraphs[find_section_content_target(blocks, paragraphs)]
                 old  == ParaText(blocks, addr)
             IN  [ok |-> TRUE,
                  blocks |-> SetParaText(blocks, addr,
                                IF Contains(old, SECTION_CONTENT_TOKEN)
                                THEN Replace(old, SECTION_CONTENT_TOKEN, ReplacementText(section))
                                ELSE ReplacementText(section))]

\* _apply_checkboxes: the loop over the body paragraphs
RECURSIVE ApplyCheckboxesFrom(_, _, _, _)
ApplyCheckboxesFrom(blocks, paragraphs, i, section) ==
    IF i > Len(paragraphs) THEN blocks
    ELSE LET text == ParaText(blocks, paragraphs[i])
         IN  ApplyCheckboxesFrom(
                 IF \E t \in CheckTokens : Contains(text, t)
                 THEN SetParaText(blocks, paragraphs[i],
                                  replace_checkbox_tokens(text, section.checkboxes))
                 ELSE blocks,
                 paragraphs, i + 1, section)

apply_checkboxes(blocks, target, section) ==
    ApplyCheckboxesFrom(blocks, body_paragraphs(blocks, target), 1, section)

\* the for loop over draft.sections of apply_draft_to_template: [ok, blocks],
\* blocks being the in-memory document when the loop ends or raises
RECURSIVE DocxLoop(_, _, _)
DocxLoop(blocks, ranges, sections) ==
    IF sections = <<>> THEN [ok |-> TRUE, blocks |-> blocks]
    ELSE LET section == Head(sections)
             ti      == FillRangeIndex(ranges, section.id)
         IN  IF ti = 0 THEN DocxLoop(blocks, ranges, Tail(sections))
             ELSE LET replaced == docx_replace_section_body(blocks, ranges[ti], section)
                  IN  IF ~replaced.ok THEN replaced
                      ELSE DocxLoop(apply_checkboxes(replaced.blocks, ranges[ti], section),
                                    ranges, Tail(sections))

\* DocxFileOnError as if the document were saved before the error is raised
DocxFileOnError_Saved(template, document) == document

\* What is on disk at out_path when the apply raises: the shutil.copy2 copy.
DocxFileOnError(template, document) == template

\* apply_draft_to_template (docx) as a function of its inputs:
\* [status, written, text, unresolved]; text is the content of out_path
apply_draft_to_docx_template(template, draft, force) ==
    LET ranges == docx_collect_section_ranges(template)
        loop   == DocxLoop(template, ranges, draft)
    IN  IF document_contains_marker(template, APPLIED_MARKER) /\ ~force
        THEN [status |-> "already_applied", written |-> TRUE,
              text |-> DocxFileOnError(template, template), unresolved |-> <<>>]
        ELSE IF ~loop.ok
        THEN [status |-> "unsupported", written |-> TRUE,
              text |-> DocxFileOnError(template, loop.blocks), unresolved |-> <<>>]
        ELSE [status |-> "ok", written |-> TRUE,
              text |-> Append(loop.blocks, Para(<<APPLIED_MARKER>>)),
              unresolved |-> UnresolvedIds(ranges, draft)]

\* template_applier.apply_draft_to_template: dispatch on the template's extension
apply_draft_to_template(format, template, draft, force) ==
    IF format = "docx" THEN apply_draft_to_docx_template(template, draft, force)
    ELSE apply_draft_to_markdown_template(template, draft, force)

(***************************************************************************)
(* Inputs of the apply engine.                                             *)
(***************************************************************************)
SeqsUpTo(S, n) == UNION {[1..k -> S] : k \in 0..n}

RECURSIVE Flatten(_)
Flatten(parts) == IF parts = <<>> THEN <<>> ELSE Head(parts) \o Flatten(Tail(parts))

\* One template section: heading line and body.
MdSectionChoices ==
    { <<"hFa", "nl", "x", "C1", "T", "nl">>,      \* Fill a: text, checkbox, token
      <<"hSc", "nl", "x", "C1", "nl">>,           \* Skip c
      <<"hVa", "nl", "T", "nl">>,                 \* Validator with id a
      <<"hFb", "nl", "x", "C2", "nl">>,           \* Fill b without the token
      <<"hN", "nl", "T", "nl">> }                 \* heading that is not a marker

\* A markdown template: a preamble line and up to MaxSections sections.
MdTemplates ==
    { <<"x", "nl">> \o Flatten(p) : p \in SeqsUpTo(MdSectionChoices, MaxSections) }

DocxSectionChoices ==
    { <<HeadingPara("hFa"), Para(<<>>), TableOf(<<<<"x", "C1">>, <<"T">>>>)>>,
      <<HeadingPara("hSc"), Para(<<"x", "C1">>)>>,
      <<HeadingPara("hVa"), Para(<<"T">>)>>,
      <<HeadingPara("hFb")>>,                     \* Fill b with no body block
      <<HeadingPara("hFb"), Para(<<"x", "T">>), Para(<<"T", "C2">>)>>,
      <<HeadingPara("hN"), Para(<<"x">>), Para(<<"C2">>)>>,
      <<HeadingPara("hE"), Para(<<"T">>)>> }      \* heading paragraph with no text

DocxTemplates ==
    { <<Para(<<"x">>)>> \o Flatten(p) : p \in SeqsUpTo(DocxSectionChoices, MaxSections) }

Templates(format) == IF format = "docx" THEN DocxTemplates ELSE MdTemplates

DraftSec(id, status, body, checkboxes) ==
    [id |-> id, title |-> <<"x">>, status |-> status, checkboxes |-> checkboxes,
     attachments |-> <<>>,
     evidence |-> IF status = "complete" THEN <<"e1">> ELSE <<>>,
     missing_items |-> IF status = "partial"
                       THEN <<[id |-> <<"m1">>, section_id |-> id, question |-> <<"q1">>,
                               user_response |-> ""]>>
                       ELSE <<>>,
     body |-> body]

ApplyDraftSections ==
    { DraftSec(<<"a">>, "complete", <<>>, <<>>),
      DraftSec(<<"a">>, "partial", <<"sp", "x", "x", "nl">>, <<[name |-> "k1", checked |-> TRUE]>>),
      DraftSec(<<"b">>, "complete", <<"x">>,
               <<[name |-> "k1", checked |-> TRUE], [name |-> "k2", checked |-> FALSE]>>) }

ApplyDrafts == SeqsUpTo(ApplyDraftSections, MaxDraft)

(***************************************************************************)
(* Idle values of the components a specification does not exercise.        *)
(***************************************************************************)
IdleGen   == [pc |-> "idle", template |-> <<>>, retries |-> 0, idx |-> 0,
              sections |-> <<>>, events |-> <<>>, outcomes |-> <<>>]
IdleRt    == [pc |-> "idle", call |-> 0, attempt |-> 0, retries |-> 0, cur |-> 0,
              last_error |-> "none", response |-> "none", slept |-> <<>>]
IdleCodec == [pc |-> "idle", draft |-> <<>>, text |-> <<>>, parsed |-> <<>>]
Absent    == [exists |-> FALSE, content |-> <<>>]

ApplyIdle ==
    /\ fmt = "none" /\ tmpl = <<>> /\ out = Absent /\ res = "none" /\ report = <<>>
    /\ lastDraft = <<>> /\ lastForce = FALSE /\ applied = 0
GenIdle   == gen = IdleGen /\ rt = IdleRt /\ cache = "none" /\ writes = <<>> /\ threads = <<>>
CodecIdle == codec = IdleCodec
IdleTp    == [pc |-> "idle", format |-> "none", template |-> <<>>, sections |-> <<>>,
              parser_errors |-> <<>>, errors |-> <<>>]
IdleStore == [file |-> <<>>, before |-> <<>>, existing |-> <<>>, new |-> <<>>,
              merged |-> <<>>, runs |-> 0]
TemplateIdle == tp = IdleTp
IdleMk    == [pc |-> "idle", heading |-> "none", fallback_fill |-> FALSE, before |-> {},
              used_ids |-> {}, result |-> <<>>, calls |-> 0]
MarkerIdle   == mk = IdleMk
StoreIdle    == store = IdleStore

(***************************************************************************)
(* The apply engine as a state machine: a template file, one apply to a    *)
(* fresh destination, and the output used as the template of a later apply.*)
(***************************************************************************)
MaxReapply == 1       \* times an output is used again as a template

InitApply ==
    /\ fmt \in {"markdown", "docx"}
    /\ tmpl \in Templates(fmt)
    /\ out = Absent /\ res = "none" /\ report = <<>>
    /\ lastDraft = <<>> /\ lastForce = FALSE /\ applied = 0
    /\ GenIdle /\ CodecIdle /\ TemplateIdle /\ StoreIdle /\ MarkerIdle

Apply(format) ==
    /\ fmt = format
    /\ res = "none"
    /\ \E draft \in ApplyDrafts, force \in BOOLEAN :
        LET r == apply_draft_to_template(format, tmpl, draft, force)
        IN  /\ out' = IF r.written THEN [exists |-> TRUE, content |-> r.text] ELSE out
            /\ res' = r.status
            /\ report' = r.unresolved
            /\ lastDraft' = draft
            /\ lastForce' = force
    /\ UNCHANGED <<fmt, tmpl, applied, gen, rt, cache, writes, threads, codec, tp, store, mk>>

ApplyMarkdown == Apply("markdown")
ApplyDocx     == Apply("docx")

\* The caller takes the output of a successful apply as its next template
\* and names a fresh destination.
ReuseOutput ==
    /\ res = "ok"
    /\ applied < MaxReapply
    /\ tmpl' = out.content
    /\ out' = Absent /\ res' = "none" /\ report' = <<>>
    /\ lastDraft' = <<>> /\ lastForce' = FALSE
    /\ applied' = applied + 1
    /\ UNCHANGED <<fmt, gen, rt, cache, writes, threads, codec, tp, store, mk>>

NextApply == ApplyMarkdown \/ ApplyDocx \/ ReuseOutput

SpecApply == InitApply /\ [][NextApply]_vars

(***************************************************************************)
(* Properties of the apply engine.                                         *)
(***************************************************************************)
IsPrefix(a, b) == Len(a) <= Len(b) /\ SubSeq(b, 1, Len(a)) = a

\* A document cut at its heading lines (markers or not): one
\* [pos, heading, body] per heading, pos being the heading's position.
DocSections(format, doc) ==
    IF format = "docx"
    THEN LET hp == HeadingPositionsFrom(doc, 1)
         IN  [k \in 1..Len(hp) |->
                [pos     |-> hp[k],
                 heading |-> doc[hp[k] + 1],
                 body    |-> SubSeq(doc, hp[k] + 2, NextHeading(hp, hp[k], Len(doc)))]]
    ELSE LET hm == HeadingMatches(doc)
         IN  [k \in 1..Len(hm) |->
                [pos     |-> hm[k],
                 heading |-> doc[hm[k]],
                 body    |-> Slice(doc, hm[k],
                                   IF k + 1 <= Len(hm) THEN hm[k + 1] - 1 ELSE Len(doc))]]

SectionRanges(format, doc) ==
    IF format = "docx" THEN docx_collect_section_ranges(doc)
    ELSE md_collect_section_ranges(doc)

RangePos(format, range) ==
    IF format = "docx" THEN range.heading_block_index ELSE range.body_start

\* The heading at pos opens a Fill section whose id some draft section carries.
MatchedFill(format, doc, draft, pos) ==
    \E i \in 1..Len(SectionRanges(format, doc)) :
        LET range == SectionRanges(format, doc)[i]
        IN  /\ RangePos(format, range) = pos
            /\ range.section_type = "fill"
            /\ \E j \in 1..Len(draft) : draft[j].id = range.section_id

\* Section k of the template is found unchanged as section k of the output;
\* the last section's body may be followed by the appended marker.
SectionKept(format, template, output, k) ==
    LET ts == DocSections(format, template)
        os == DocSections(format, output)
    IN  /\ k <= Len(os)
        /\ os[k].heading = ts[k].heading
        /\ IF k = Len(ts) THEN IsPrefix(ts[k].body, os[k].body)
           ELSE os[k].body = ts[k].body

\* C1: once an apply has succeeded and produced an output, every later apply
\* that takes this output as its template with force = false ends in
\* AlreadyAppliedError, whatever the draft, in both formats.
C1_ReapplyWithoutForceRejected ==
    (applied >= 1 /\ res # "none" /\ ~lastForce) => res = "already_applied"

C1_Witness ==
    /\ applied >= 1 /\ res = "already_applied" /\ ~lastForce
    /\ Len(lastDraft) = 2 /\ lastDraft[1].id # lastDraft[2].id

\* C2: when an apply ends in an error, the destination is absent or holds an
\* unmodified copy of the template, never a partially substituted document.
C2_ErrorLeavesNoPartialOutput ==
    res \in {"already_applied", "unsupported"} =>
        (~out.exists \/ out.content = tmpl)

\* A docx apply that substituted one section in memory and then raised on
\* the next one.
C2_Witness ==
    /\ fmt = "docx" /\ res = "unsupported" /\ out.exists
    /\ DocxLoop(tmpl, docx_collect_section_ranges(tmpl), lastDraft).blocks # tmpl

\* A markdown apply that raised on a Fill section without the token.
C2_WitnessMarkdown ==
    fmt = "markdown" /\ res = "unsupported" /\ ~out.exists /\ Len(lastDraft) = 2

\* C3: after a successful apply every template section that is not a Fill
\* section matched by id by a draft section (Skip, Validator, omitted Fill)
\* has its heading and body identical to the template's.
C3_UnaddressedSectionsUntouched ==
    res = "ok" =>
        \A k \in 1..Len(DocSections(fmt, tmpl)) :
            MatchedFill(fmt, tmpl, lastDraft, DocSections(fmt, tmpl)[k].pos)
            \/ SectionKept(fmt, tmpl, out.content, k)

\* occurrences of the applied marker in a document of the given format
RECURSIVE DocxMarkerCount(_)
DocxMarkerCount(blocks) ==
    IF blocks = <<>> THEN 0
    ELSE (IF Head(blocks).table
          THEN Count(Flatten(Head(blocks).cells), APPLIED_MARKER)
          ELSE Count(Head(blocks).text, APPLIED_MARKER))
         + DocxMarkerCount(Tail(blocks))

MarkerCount(format, doc) ==
    IF format = "docx" THEN DocxMarkerCount(doc) ELSE Count(doc, APPLIED_MARKER)

\* the document ends with the marker (a marker line / a marker paragraph)
EndsWithMarker(format, doc) ==
    /\ doc # <<>>
    /\ IF format = "docx" THEN doc[Len(doc)] = Para(<<APPLIED_MARKER>>)
       ELSE IsPrefix(<<APPLIED_MARKER, "nl">>, SubSeq(doc, Len(doc) - 1, Len(doc)))

\* C17: every successful apply appends the marker exactly once at the end of
\* the document; a forced re-apply on an applied document succeeds and its
\* output holds one more marker than its input.
C17_MarkerAppendedOncePerApply ==
    res = "ok" =>
        /\ EndsWithMarker(fmt, out.content)
        /\ MarkerCount(fmt, out.content) = MarkerCount(fmt, tmpl) + 1

\* ids of the Fill sections of a document
FillIds(format, doc) ==
    {SectionRanges(format, doc)[i].section_id :
        i \in {k \in 1..Len(SectionRanges(format, doc)) :
                  SectionRanges(format, doc)[k].section_type = "fill"}}

\* the draft with every status set to complete
AllComplete(draft) == [i \in 1..Len(draft) |-> [draft[i] EXCEPT !.status = "complete"]]

\* the ids of a list of draft sections, in order
IdsOf(sections) == [i \in 1..Len(sections) |-> sections[i].id]

\* C18: the unresolved_section_ids of a report are the ids of the draft
\* sections that are Partial and whose id is that of a Fill section of the
\* template, in draft order; and the statuses of the draft do not decide
\* whether the output is written.
C18_UnresolvedAreMatchedPartials ==
    /\ res = "ok" =>
          report = IdsOf(SelectSeq(lastDraft,
                                   LAMBDA sec : sec.status = "partial"
                                                /\ sec.id \in FillIds(fmt, tmpl)))
    /\ res # "none" =>
          apply_draft_to_template(fmt, tmpl, AllComplete(lastDraft), lastForce).status = res

\* An apply was written although its second draft section is Partial; only
\* that section is listed, the Complete one before it is not.
C18_Witness ==
    /\ res = "ok" /\ out.exists
    /\ Len(lastDraft) = 2
    /\ lastDraft[1].status = "complete" /\ lastDraft[2].status = "partial"
    /\ report = <<<<"a">>>>

\* the draft sections of a docx apply that reach _replace_section_body with
\* a Fill range that has body paragraphs
DocxSubstitutions(blocks, draft) ==
    {j \in 1..Len(draft) :
        LET ranges == docx_collect_section_ranges(blocks)
            ti     == FillRangeIndex(ranges, draft[j].id)
        IN  ti # 0 /\ body_paragraphs(blocks, ranges[ti]) # <<>>}

\* the Fill range addressed by a draft section
DocxTargetRange(blocks, section) ==
    docx_collect_section_ranges(blocks)[
        FillRangeIndex(docx_collect_section_ranges(blocks), section.id)]

\* paragraph i of the body paragraphs is the one the substitution has to
\* pick: the first with the token, else the first non-blank, else the first
IsSubstitutionTarget(blocks, paragraphs, i) ==
    LET HasToken(k) == Contains(ParaText(blocks, paragraphs[k]), SECTION_CONTENT_TOKEN)
        NonBlank(k) == Strip(ParaText(blocks, paragraphs[k])) # <<>>
    IN  IF \E k \in 1..Len(paragraphs) : HasToken(k)
        THEN HasToken(i) /\ \A k \in 1..(i - 1) : ~HasToken(k)
        ELSE IF \E k \in 1..Len(paragraphs) : NonBlank(k)
        THEN NonBlank(i) /\ \A k \in 1..(i - 1) : ~NonBlank(k)
        ELSE i = 1

\* One substitution step on blocks: the target is the paragraph named above,
\* its new text is the replacement (whole = TRUE: in every case; whole =
\* FALSE: the old text with each token replaced when it carries the token),
\* and every other paragraph and block is as before.
DocxStepAsStated(blocks, section, whole) ==
    LET range      == DocxTargetRange(blocks, section)
        paragraphs == body_paragraphs(blocks, range)
        after      == docx_replace_section_body(blocks, range, section).blocks
    IN  /\ Len(after) = Len(blocks)
        /\ \A b \in 1..Len(blocks) :
              (b <= range.body_start_block \/ b > range.body_end_block) => after[b] = blocks[b]
        /\ \E i \in 1..Len(paragraphs) :
              /\ IsSubstitutionTarget(blocks, paragraphs, i)
              /\ ParaText(after, paragraphs[i]) =
                    (IF whole \/ ~Contains(ParaText(blocks, paragraphs[i]), SECTION_CONTENT_TOKEN)
                     THEN ReplacementText(section)
                     ELSE Replace(ParaText(blocks, paragraphs[i]), SECTION_CONTENT_TOKEN,
                                  ReplacementText(section)))
              /\ \A k \in 1..Len(paragraphs) :
                    k # i => ParaText(after, paragraphs[k]) = ParaText(blocks, paragraphs[k])

\* C21 as stated: in docx the substitution target of an addressed Fill
\* section is the first body paragraph with the token, else the first
\* non-blank one, else the first; the whole text of that paragraph becomes
\* the composed replacement and no other paragraph changes.
C21_WholeTextReplaced ==
    (fmt = "docx" /\ res # "none") =>
        \A j \in DocxSubstitutions(tmpl, lastDraft) :
            DocxStepAsStated(tmpl, lastDraft[j], TRUE)

\* C21 amended: same target and frame; a target that carries the token keeps
\* its other text and has each occurrence of the token replaced by the
\* composed replacement, a target without the token gets the replacement as
\* its whole text.
C21_TargetAndReplacement ==
    (fmt = "docx" /\ res # "none") =>
        \A j \in DocxSubstitutions(tmpl, lastDraft) :
            DocxStepAsStated(tmpl, lastDraft[j], FALSE)

\* A docx apply that substituted one section whose target is a table cell
\* after a blank paragraph, and one whose target holds text next to the token.
C21_Witness ==
    /\ fmt = "docx" /\ res = "ok"
    /\ \E j \in DocxSubstitutions(tmpl, lastDraft) :
          LET paragraphs == body_paragraphs(tmpl, DocxTargetRange(tmpl, lastDraft[j]))
          IN  \E i \in 2..Len(paragraphs) :
                 /\ IsSubstitutionTarget(tmpl, paragraphs, i)
                 /\ paragraphs[i][2] # 0
                 /\ Contains(ParaText(tmpl, paragraphs[i]), SECTION_CONTENT_TOKEN)
    /\ \E j \in DocxSubstitutions(tmpl, lastDraft) :
          LET paragraphs == body_paragraphs(tmpl, DocxTargetRange(tmpl, lastDraft[j]))
          IN  \E i \in 1..Len(paragraphs) :
                 /\ IsSubstitutionTarget(tmpl, paragraphs, i)
                 /\ Contains(ParaText(tmpl, paragraphs[i]), SECTION_CONTENT_TOKEN)
                 /\ Len(ParaText(tmpl, paragraphs[i])) > 1

\* the text of the body range of a section: the slice of a markdown text,
\* the texts of the body paragraphs of a docx document one after the other
RangeBodyText(format, doc, range) ==
    IF format = "docx"
    THEN Flatten([k \in 1..Len(body_paragraphs(doc, range)) |->
                     ParaText(doc, body_paragraphs(doc, range)[k])])
    ELSE Slice(doc, range.body_start, range.body_end)

\* the ids of the draft sections that address a Fill section of the document
AddressedFillIds(format, doc, draft) ==
    {draft[j].id : j \in {k \in 1..Len(draft) :
                             FillRangeIndex(SectionRanges(format, doc), draft[k].id) # 0}}

\* the body text, in the document, of the Fill section of the given id
FillBodyText(format, doc, id) ==
    RangeBodyText(format, doc,
                  SectionRanges(format, doc)[FillRangeIndex(SectionRanges(format, doc), id)])

\* C22: after a successful non-forced apply of a draft whose bodies do not
\* hold the token, the body range of every Fill section addressed by the
\* draft holds no [[SECTION_CONTENT]] token, in both formats and however many
\* body elements of the section carried it.
C22_NoTokenLeftInAddressedSections ==
    (res = "ok" /\ ~lastForce
       /\ \A j \in 1..Len(lastDraft) : ~Contains(lastDraft[j].body, SECTION_CONTENT_TOKEN)) =>
        \A id \in AddressedFillIds(fmt, tmpl, lastDraft) :
            /\ FillRangeIndex(SectionRanges(fmt, out.content), id) # 0
            /\ ~Contains(FillBodyText(fmt, out.content, id), SECTION_CONTENT_TOKEN)

\* a text with every checkbox token rendered as the glyph the draft section's
\* checkbox list gives its name: checked when the list has the name with
\* checked = true, unchecked otherwise
RECURSIVE RenderedAsListed(_, _)
RenderedAsListed(text, checkboxes) ==
    IF text = <<>> THEN <<>>
    ELSE (IF Head(text) \in CheckTokens
          THEN (IF \E i \in 1..Len(checkboxes) :
                      checkboxes[i].name = CheckTokenName(Head(text)) /\ checkboxes[i].checked
                THEN <<"on">> ELSE <<"off">>)
          ELSE <<Head(text)>>)
         \o RenderedAsListed(Tail(text), checkboxes)

\* number of checkbox tokens in a text
CheckTokenCount(text) == Count(text, "C1") + Count(text, "C2")

\* the checkbox tokens of a section body, in order (a docx body is a list
\* of blocks)
RECURSIVE BlocksText(_)
BlocksText(blocks) ==
    IF blocks = <<>> THEN <<>>
    ELSE (IF Head(blocks).table THEN Flatten(Head(blocks).cells) ELSE Head(blocks).text)
         \o BlocksText(Tail(blocks))

CheckTokensIn(format, body) ==
    SelectSeq(IF format = "docx" THEN BlocksText(body) ELSE body,
              LAMBDA sym : sym \in CheckTokens)

\* the draft sections that carry the given id
DraftSectionsOf(draft, id) == {j \in 1..Len(draft) : draft[j].id = id}

\* The body of the Fill section addressed by draft section j, in the output,
\* is the body after substitution with its checkbox tokens rendered.
BodyRenderedAsListed(format, template, output, section) ==
    LET ranges == SectionRanges(format, template)
        range  == ranges[FillRangeIndex(ranges, section.id)]
    IN  IF format = "docx"
        THEN LET after == docx_replace_section_body(template, range, section).blocks
                 paragraphs == body_paragraphs(template, range)
             IN  \A k \in 1..Len(paragraphs) :
                    ParaText(output, paragraphs[k]) =
                        RenderedAsListed(ParaText(after, paragraphs[k]), section.checkboxes)
        ELSE IsPrefix(
                 RenderedAsListed(
                     Replace(Slice(template, range.body_start, range.body_end),
                             SECTION_CONTENT_TOKEN, ReplacementText(section)),
                     section.checkboxes),
                 FillBodyText(format, output, section.id))

\* C23: after a successful apply, in the body range of each Fill section
\* addressed by the draft no checkbox token is left and each one was rendered
\* as the glyph its name has in the draft section's checkbox list (unchecked
\* when the name has no entry); the sections the draft does not address keep
\* their checkbox tokens.
C23_CheckboxTokensRendered ==
    res = "ok" =>
        /\ \A id \in AddressedFillIds(fmt, tmpl, lastDraft) :
              /\ FillRangeIndex(SectionRanges(fmt, out.content), id) # 0
              /\ CheckTokenCount(FillBodyText(fmt, out.content, id)) = 0
              /\ \A j \in DraftSectionsOf(lastDraft, id) :
                    Cardinality(DraftSectionsOf(lastDraft, id)) = 1 =>
                        BodyRenderedAsListed(fmt, tmpl, out.content, lastDraft[j])
        /\ \A k \in 1..Len(DocSections(fmt, tmpl)) :
              ~MatchedFill(fmt, tmpl, lastDraft, DocSections(fmt, tmpl)[k].pos) =>
                  /\ k <= Len(DocSections(fmt, out.content))
                  /\ CheckTokensIn(fmt, DocSections(fmt, out.content)[k].body)
                        = CheckTokensIn(fmt, DocSections(fmt, tmpl)[k].body)

\* the heading text of a section of DocSections
HeadingSymOf(format, heading) == IF format = "docx" THEN heading.text[1] ELSE heading

\* a heading the format recognizes as a marker: not blank, and tagged with a
\* kind or, in docx, any heading at all
IsRecognizedMarker(format, h) ==
    h # "hE" /\ (HeadingTag(h) # "none" \/ format = "docx")

\* where the body of the section whose heading is at pos has to start and end
\* (offsets in a markdown text, block indexes in a docx document)
StatedBodyStart(format, pos) == IF format = "docx" THEN pos + 1 ELSE pos

StatedBodyEnd(format, doc, pos) ==
    LET later == {DocSections(format, doc)[k].pos :
                     k \in {n \in 1..Len(DocSections(format, doc)) :
                               DocSections(format, doc)[n].pos > pos}}
    IN  IF later = {} THEN Len(doc)
        ELSE LET nxt == CHOOSE q \in later : \A r \in later : q <= r
             IN  IF format = "docx" THEN nxt ELSE nxt - 1

RangeStart(format, range) ==
    IF format = "docx" THEN range.body_start_block ELSE range.body_start

RangeEnd(format, range) ==
    IF format = "docx" THEN range.body_end_block ELSE range.body_end

\* C25: the section ranges derived from a template are as many as its
\* headings recognized as markers; each body range starts right after its
\* own heading and ends at the next heading of any kind or at the end of the
\* document; ranges of distinct sections do not overlap.
C25_RangesFollowHeadings ==
    res \in {"ok", "unsupported"} =>
        LET ranges  == SectionRanges(fmt, tmpl)
            markers == SelectSeq(DocSections(fmt, tmpl),
                                 LAMBDA s : IsRecognizedMarker(fmt, HeadingSymOf(fmt, s.heading)))
        IN  /\ Len(ranges) = Len(markers)
            /\ \A i \in 1..Len(ranges) :
                  /\ i <= Len(markers)
                  /\ RangeStart(fmt, ranges[i]) = StatedBodyStart(fmt, markers[i].pos)
                  /\ RangeEnd(fmt, ranges[i]) = StatedBodyEnd(fmt, tmpl, markers[i].pos)
                  /\ RangeStart(fmt, ranges[i]) <= RangeEnd(fmt, ranges[i])
            /\ \A i, j \in 1..Len(ranges) :
                  i < j => RangeEnd(fmt, ranges[i]) < RangeStart(fmt, ranges[j])

\* A docx template in which a section is closed by a heading paragraph that
\* is not recognized as a marker, so it has fewer ranges than headings.
C25_Witness ==
    /\ fmt = "docx" /\ res = "ok"
    /\ Len(SectionRanges(fmt, tmpl)) >= 1
    /\ Len(SectionRanges(fmt, tmpl)) < Len(DocSections(fmt, tmpl))
    /\ \E i \in 1..Len(SectionRanges(fmt, tmpl)) :
          LET e == SectionRanges(fmt, tmpl)[i].body_end_block
          IN  e < Len(tmpl) /\ is_heading(tmpl[e + 1]) /\ tmpl[e + 1].text = <<"hE">>

\* A markdown text rebuilt from left to right: the text up to each addressed
\* Fill range is copied, the range is replaced by the body composed from the
\* draft section pick[id] chosen for it, and the text after the last range
\* is copied.
RECURSIVE RebuiltFrom(_, _, _, _, _, _, _)
RebuiltFrom(text, pos, ranges, i, draft, pick, require_token) ==
    IF i > Len(ranges) THEN Slice(text, pos, Len(text))
    ELSE IF ranges[i].section_id \in DOMAIN pick
            /\ FillRangeIndex(ranges, ranges[i].section_id) = i
    THEN Slice(text, pos, ranges[i].body_start)
         \o md_replace_section_body(
                Slice(text, ranges[i].body_start, ranges[i].body_end),
                draft[pick[ranges[i].section_id]], require_token).text
         \o RebuiltFrom(text, ranges[i].body_end, ranges, i + 1, draft, pick, require_token)
    ELSE RebuiltFrom(text, pos, ranges, i + 1, draft, pick, require_token)

\* C28: a successful markdown apply, also of a draft in which two sections
\* carry the same Fill section id, rewrites each addressed Fill body range
\* once, with the body composed from one draft section of that id, and leaves
\* all text outside these ranges as in the template, apart from the marker
\* appended at the end.
C28_EachRangeRewrittenOnce ==
    (fmt = "markdown" /\ res = "ok") =>
        \E pick \in [AddressedFillIds(fmt, tmpl, lastDraft) -> 1..Len(lastDraft)] :
            /\ \A id \in DOMAIN pick : lastDraft[pick[id]].id = id
            /\ out.content =
                  MdFinish(RebuiltFrom(tmpl, 0, md_collect_section_ranges(tmpl), 1, lastDraft, pick,
                                       ~(lastForce /\ Contains(tmpl, APPLIED_MARKER))))

\* a document followed by one more idempotency marker, as a successful apply
\* appends it to a document that already ends with one
WithOneMoreMarker(format, doc) ==
    IF format = "docx" THEN Append(doc, Para(<<APPLIED_MARKER>>))
    ELSE doc \o <<"nl", APPLIED_MARKER, "nl">>

\* the template of this apply is what an apply of the same draft produced
IsOutputOfSameDraft ==
    \E T \in Templates(fmt), force \in BOOLEAN :
        LET first == apply_draft_to_template(fmt, T, lastDraft, force)
        IN  first.status = "ok" /\ first.text = tmpl

\* C30: forced re-apply is idempotent on content: if applying draft D to
\* template T yields O1 and applying the same D to O1 with force=true yields
\* O2, then every section body in O2 equals the corresponding body in O1, so
\* O2 differs from O1 only by the additional idempotency marker, in both
\* formats.
C30_ForcedReapplyKeepsContent ==
    (applied = 1 /\ res = "ok" /\ lastForce /\ IsOutputOfSameDraft) =>
        out.content = WithOneMoreMarker(fmt, tmpl)

(***************************************************************************)
(* Generation orchestrator (draft_generator.py).                           *)
(***************************************************************************)
\* What the collaborator can return from one invoke: a result in one of the
\* shapes _response_to_text handles, carrying a response text.
AgentResults ==
    { [shape |-> "str", text |-> "E"],                \* plain string
      [shape |-> "dict_output", text |-> "Mi"],       \* {"output": str}
      [shape |-> "dict_messages", text |-> "P"] }     \* {"messages": [..., {"content": str}]}

\* _response_to_text: every handled shape yields the text it carries; any
\* other object is serialised with str().
response_to_text(result) ==
    IF result.shape \in {"str", "dict_output", "dict_content", "dict_messages",
                         "attr_content_str", "attr_content_list"}
    THEN result.text
    ELSE "repr"

\* _parse_response_payload on the response texts of the model:
\*   "E"  a JSON object with body, one checkbox, evidence ["e1", " "]
\*   "Mi" prose around a JSON object with body and one missing item
\*   "P"  prose without a JSON object; anything else likewise gives {}
parse_response_payload(text) ==
    CASE text = "E"  -> [body |-> <<"sp", "x", "nl">>,
                         checkboxes |-> <<[name |-> "k1", checked |-> TRUE]>>,
                         attachments |-> <<>>, evidence |-> <<"e1", " ">>,
                         missing_items |-> <<>>]
      [] text = "Mi" -> [body |-> <<"x">>, checkboxes |-> <<>>, attachments |-> <<>>,
                         evidence |-> <<>>,
                         missing_items |-> <<[id |-> <<"m1">>, question |-> <<"q1">>,
                                              user_response |-> "r1"]>>]
      [] OTHER       -> [body |-> <<>>, checkboxes |-> <<>>, attachments |-> <<>>,
                         evidence |-> <<>>, missing_items |-> <<>>]

\* _coerce_str_list: entries that are blank after strip are dropped
coerce_str_list(raw) == SelectSeq(raw, LAMBDA item : item \notin {"", " "})

\* draft_generator._parse_missing_items: section_id is always the section's
gen_parse_missing_items(raw, section_id) ==
    [i \in 1..Len(raw) |->
        [id |-> raw[i].id, section_id |-> section_id, question |-> raw[i].question,
         user_response |-> raw[i].user_response]]

\* response_to_draft_section without the stand-in missing item
response_to_draft_section_NoFallback(response_text, section_id, title) ==
    LET payload  == parse_response_payload(response_text)
        stripped == Strip(payload.body)
        evidence == coerce_str_list(payload.evidence)
        missing  == gen_parse_missing_items(payload.missing_items, section_id)
    IN  [id |-> section_id, title |-> title,
         status |-> IF missing # <<>> THEN "partial" ELSE "complete",
         checkboxes |-> payload.checkboxes, attachments |-> coerce_str_list(payload.attachments),
         evidence |-> evidence, missing_items |-> missing,
         body |-> IF stripped = <<>> THEN <<"no_information">> ELSE stripped]

\* _response_to_draft_section
response_to_draft_section(response_text, section_id, title) ==
    LET payload  == parse_response_payload(response_text)
        stripped == Strip(payload.body)
        body     == IF stripped = <<>> THEN <<"no_information">> ELSE stripped
        evidence == coerce_str_list(payload.evidence)
        parsed   == gen_parse_missing_items(payload.missing_items, section_id)
        missing  == IF evidence = <<>> /\ parsed = <<>>
                    THEN <<[id |-> Append(section_id, "missing_info"),
                            section_id |-> section_id,
                            question |-> <<"not provided by the codebase">>,
                            user_response |-> ""]>>
                    ELSE parsed
    IN  [id |-> section_id, title |-> title,
         status |-> IF missing # <<>> THEN "partial" ELSE "complete",
         checkboxes |-> payload.checkboxes, attachments |-> coerce_str_list(payload.attachments),
         evidence |-> evidence, missing_items |-> missing, body |-> body]

\* AgentErrorStub with the wrong status
AgentErrorStub_Complete(section, exc) ==
    [id |-> section.id, title |-> section.title, status |-> "complete",
     checkboxes |-> <<>>, attachments |-> <<>>, evidence |-> <<>>,
     missing_items |-> <<[id |-> Append(section.id, "agent_error"),
                          section_id |-> section.id,
                          question |-> <<"agent failed", exc>>,
                          user_response |-> ""]>>,
     body |-> <<"agent_error_body">>]

\* the DraftSection built in the except branch of generate_draft
AgentErrorStub(section, exc) ==
    [id |-> section.id, title |-> section.title, status |-> "partial",
     checkboxes |-> <<>>, attachments |-> <<>>, evidence |-> <<>>,
     missing_items |-> <<[id |-> Append(section.id, "agent_error"),
                          section_id |-> section.id,
                          question |-> <<"agent failed", exc>>,
                          user_response |-> ""]>>,
     body |-> <<"agent_error_body">>]

\* FillSections without the filter
FillSections_All(sections) == sections

\* fill_sections = [s for s in parsed_template.sections if s.section_type == FILL]
FillSections(sections) == SelectSeq(sections, LAMBDA sec : sec.section_type = "fill")

(***************************************************************************)
(* Runtime wrapper (agent_runtime.py).                                     *)
(***************************************************************************)
PAYLOAD_LABELS == <<"raw-string", "input-dict", "messages-dict">>

\* BuildPayload ignoring the format
BuildPayload_AlwaysRaw(payload_format) == "raw-string"

\* AgentRuntime._build_payload: the shape of the payload built for a format
BuildPayload(payload_format) ==
    IF payload_format = "input-dict" THEN "input-dict"
    ELSE IF payload_format = "messages-dict" THEN "messages-dict"
    ELSE "raw-string"

\* AttemptInRange letting one attempt too many through
AttemptInRange_OffByOne(attempt, retries) == attempt <= retries + 1

\* for attempt in range(1, retries + 1): the loop continues with this attempt
AttemptInRange(attempt, retries) == attempt <= retries

\* Backoff that sleeps the same time after every attempt
Backoff_Constant(attempt) == 1

\* backoff = 0.5 * attempt, in half seconds
Backoff(attempt) == attempt

\* OnAttemptFailed treating a timeout as terminal
OnAttemptFailed_TimeoutFatal(r, error) ==
    IF error = "timeout"
    THEN [r EXCEPT !.pc = "raised", !.last_error = error, !.cur = 0]
    ELSE [r EXCEPT !.pc = "loop", !.last_error = error, !.cur = 0,
                   !.attempt = r.attempt + 1,
                   !.slept = IF r.attempt < r.retries
                             THEN Append(r.slept, Backoff(r.attempt)) ELSE r.slept]

\* the except branch of invoke_with_retry: remember the error, sleep
\* 0.5 * attempt seconds (recorded in half seconds) unless this was the last
\* attempt, and go on with the loop
OnAttemptFailed(r, error) ==
    [r EXCEPT !.pc = "loop", !.last_error = error, !.cur = 0,
              !.attempt = r.attempt + 1,
              !.slept = IF r.attempt < r.retries
                        THEN Append(r.slept, Backoff(r.attempt)) ELSE r.slept]

(***************************************************************************)
(* generate_draft and invoke_with_retry as a state machine.  The control   *)
(* thread runs generate_draft and, inside it, invoke_with_retry; every     *)
(* attempt submits _invoke_once to a fresh single-worker executor, so each *)
(* attempt owns one worker thread, which goes on running when the attempt  *)
(* times out.                                                              *)
(***************************************************************************)
MaxGenSections == 2   \* sections of the parsed template handed to generate_draft
MaxRetries     == 2   \* largest retries argument

GenSectionChoices ==
    { [id |-> <<"a">>, title |-> <<"A">>, section_type |-> "fill"],
      [id |-> <<"b">>, title |-> <<"B">>, section_type |-> "fill"],
      [id |-> <<"c">>, title |-> <<"C">>, section_type |-> "skip"] }

NewThread(call, attempt) ==
    [st |-> "pending",          \* pending | invoking | done
     call |-> call,             \* index of the Fill section of the logical call
     attempt |-> attempt,       \* attempt number within the logical call
     mode |-> "none",           \* cached | probe: the branch _invoke_once took
     start_cache |-> "none",    \* _payload_format as read on entry
     writes_seen |-> 0,         \* history: writes made to the field before the entry
     k |-> 0,                   \* index of the candidate payload in flight
     sent |-> <<>>,             \* shapes of the payloads passed to agent.invoke
     ok |-> FALSE, error |-> "none", raw |-> "none", text |-> "none",
     outcome |-> "waiting"]     \* what the wrapper saw: waiting | ok | timeout | <error>

\* parsed templates that passed validation: no id occurs twice
GenTemplates ==
    { t \in SeqsUpTo(GenSectionChoices, MaxGenSections) :
        \A i, j \in 1..Len(t) : i # j => t[i].id # t[j].id }

InitGen ==
    /\ ApplyIdle /\ CodecIdle /\ TemplateIdle /\ StoreIdle /\ MarkerIdle
    /\ \E template \in GenTemplates, retries \in 1..MaxRetries :
          gen = [pc |-> "loop", template |-> template, retries |-> retries, idx |-> 1,
                 sections |-> <<>>, events |-> <<>>, outcomes |-> <<>>]
    /\ rt = IdleRt /\ cache = "none" /\ writes = <<>> /\ threads = <<>>

\* generate_draft, loop body up to the call of runtime.invoke_with_retry
GenInvoke ==
    /\ gen.pc = "loop"
    /\ gen.idx <= Len(FillSections(gen.template))
    /\ gen' = [gen EXCEPT !.pc = "waiting",
                          !.events = Append(@, <<"call", FillSections(gen.template)[gen.idx].id>>)]
    /\ rt' = [pc |-> "loop", call |-> gen.idx, attempt |-> 1, retries |-> gen.retries,
              cur |-> 0, last_error |-> "none", response |-> "none", slept |-> <<>>]
    /\ UNCHANGED <<cache, writes, threads, codec, tp, store, mk>> /\ UNCHANGED applyVars

\* _invoke_once, entry: read _payload_format and pass the first payload to
\* agent.invoke.  (The source reads the field for the test and again to build
\* the payload; the field never returns to None, so the second read decides.)
InvokeOnceBegin(thread, payload_format, nwrites) ==
    IF payload_format # "none"
    THEN [thread EXCEPT !.st = "invoking", !.mode = "cached", !.start_cache = payload_format,
                        !.writes_seen = nwrites,
                        !.sent = <<BuildPayload(payload_format)>>]
    ELSE [thread EXCEPT !.st = "invoking", !.mode = "probe", !.k = 1,
                        !.writes_seen = nwrites,
                        !.sent = <<PAYLOAD_LABELS[1]>>]

\* invoke_with_retry, loop head, and _invoke_with_timeout up to future.result:
\* the worker of the fresh executor takes the call at once, so the entry of
\* _invoke_once is part of this step (any write to _payload_format another
\* worker makes before the entry can as well be made before the submit).
RtAttemptStart ==
    /\ rt.pc = "loop"
    /\ AttemptInRange(rt.attempt, rt.retries)
    /\ threads' = Append(threads, InvokeOnceBegin(NewThread(rt.call, rt.attempt), cache, Len(writes)))
    /\ rt' = [rt EXCEPT !.pc = "waiting", !.cur = Len(threads) + 1]
    /\ UNCHANGED <<gen, cache, writes, codec, tp, store, mk>> /\ UNCHANGED applyVars

\* invoke_with_retry, after the loop: raise RuntimeError(... last_error)
RtExhausted ==
    /\ rt.pc = "loop"
    /\ ~AttemptInRange(rt.attempt, rt.retries)
    /\ rt' = [rt EXCEPT !.pc = "raised"]
    /\ UNCHANGED <<gen, cache, writes, threads, codec, tp, store, mk>> /\ UNCHANGED applyVars

\* agent.invoke returns: the cached branch returns the text; the probing
\* branch locks the payload format first
AgentReturns(t) ==
    /\ threads[t].st = "invoking"
    /\ \E result \in AgentResults :
          threads' = [threads EXCEPT ![t] =
                         IF threads[t].outcome = "timeout"
                         THEN [@ EXCEPT !.st = "done"]      \* nobody reads the future
                         ELSE [@ EXCEPT !.st = "done", !.ok = TRUE, !.raw = result,
                                        !.text = response_to_text(result)]]
    /\ IF threads[t].mode = "probe"
       THEN /\ cache' = PAYLOAD_LABELS[threads[t].k]
            /\ writes' = Append(writes, [thread |-> t, value |-> PAYLOAD_LABELS[threads[t].k]])
       ELSE UNCHANGED <<cache, writes>>
    /\ UNCHANGED <<gen, rt, codec, tp, store, mk>> /\ UNCHANGED applyVars

\* agent.invoke raises: the cached branch lets the exception out; the
\* probing branch goes on to the next candidate and raises after the last
AgentRaises(t) ==
    /\ threads[t].st = "invoking"
    /\ threads' = [threads EXCEPT ![t] =
          IF threads[t].mode = "probe" /\ threads[t].k < Len(PAYLOAD_LABELS)
          THEN [@ EXCEPT !.k = @ + 1, !.sent = Append(@, PAYLOAD_LABELS[threads[t].k + 1])]
          ELSE IF threads[t].outcome = "timeout"
          THEN [@ EXCEPT !.st = "done"]                     \* nobody reads the future
          ELSE IF threads[t].mode = "cached"
          THEN [@ EXCEPT !.st = "done", !.ok = FALSE, !.error = "invoke_error"]
          ELSE [@ EXCEPT !.st = "done", !.ok = FALSE, !.error = "all_formats_failed"]]
    /\ UNCHANGED <<gen, rt, cache, writes, codec, tp, store, mk>> /\ UNCHANGED applyVars

\* future.result returns the text: invoke_with_retry returns it
RtFutureReturns ==
    /\ rt.pc = "waiting"
    /\ threads[rt.cur].st = "done" /\ threads[rt.cur].ok
    /\ rt' = [rt EXCEPT !.pc = "returned", !.response = threads[rt.cur].text]
    /\ threads' = [threads EXCEPT ![rt.cur].outcome = "ok"]
    /\ UNCHANGED <<gen, cache, writes, codec, tp, store, mk>> /\ UNCHANGED applyVars

\* future.result re-raises the exception of _invoke_once
RtFutureRaises ==
    /\ rt.pc = "waiting"
    /\ threads[rt.cur].st = "done" /\ ~threads[rt.cur].ok
    /\ rt' = OnAttemptFailed(rt, threads[rt.cur].error)
    /\ threads' = [threads EXCEPT ![rt.cur].outcome = threads[rt.cur].error]
    /\ UNCHANGED <<gen, cache, writes, codec, tp, store, mk>> /\ UNCHANGED applyVars

\* RtTimeout as if the wrapper waited for the worker (shutdown(wait=True))
RtTimeout_WaitsForWorker ==
    /\ rt.pc = "waiting"
    /\ threads[rt.cur].st = "done" /\ threads[rt.cur].outcome = "timeout"
    /\ rt' = OnAttemptFailed(rt, "timeout")
    /\ threads' = [threads EXCEPT ![rt.cur].outcome = "timeout"]
    /\ UNCHANGED <<gen, cache, writes, codec, tp, store, mk>> /\ UNCHANGED applyVars

\* future.result(timeout) expires: future.cancel() cannot stop a call that
\* is running and executor.shutdown(wait=False) does not wait for the worker
RtTimeout ==
    /\ rt.pc = "waiting"
    /\ threads[rt.cur].st = "invoking"
    /\ rt' = OnAttemptFailed(rt, "timeout")
    /\ threads' = [threads EXCEPT ![rt.cur].outcome = "timeout"]
    /\ UNCHANGED <<gen, cache, writes, codec, tp, store, mk>> /\ UNCHANGED applyVars

\* generate_draft, after invoke_with_retry returned: build the section
GenSectionDone ==
    /\ gen.pc = "waiting" /\ rt.pc = "returned"
    /\ LET section == FillSections(gen.template)[gen.idx]
       IN  gen' = [gen EXCEPT
                     !.pc = "loop", !.idx = @ + 1,
                     !.sections = Append(@, response_to_draft_section(
                                                rt.response, section.id, section.title)),
                     !.outcomes = Append(@, [ok |-> TRUE, text |-> rt.response]),
                     !.events = Append(@, <<"return", section.id>>)]
    /\ rt' = [rt EXCEPT !.pc = "idle"]
    /\ UNCHANGED <<cache, writes, threads, codec, tp, store, mk>> /\ UNCHANGED applyVars

\* generate_draft, except branch: the call raised, a partial stub is appended
GenSectionFailed ==
    /\ gen.pc = "waiting" /\ rt.pc = "raised"
    /\ LET section == FillSections(gen.template)[gen.idx]
       IN  gen' = [gen EXCEPT
                     !.pc = "loop", !.idx = @ + 1,
                     !.sections = Append(@, AgentErrorStub(section, rt.last_error)),
                     !.outcomes = Append(@, [ok |-> FALSE, text |-> rt.last_error]),
                     !.events = Append(@, <<"raise", section.id>>)]
    /\ rt' = [rt EXCEPT !.pc = "idle"]
    /\ UNCHANGED <<cache, writes, threads, codec, tp, store, mk>> /\ UNCHANGED applyVars

\* generate_draft, after the loop: return DraftDocument(sections)
GenFinish ==
    /\ gen.pc = "loop"
    /\ gen.idx > Len(FillSections(gen.template))
    /\ gen' = [gen EXCEPT !.pc = "done"]
    /\ UNCHANGED <<rt, cache, writes, threads, codec, tp, store, mk>> /\ UNCHANGED applyVars

NextGen ==
    \/ GenInvoke \/ RtAttemptStart \/ RtExhausted
    \/ (\E t \in 1..Len(threads) : AgentReturns(t))
    \/ (\E t \in 1..Len(threads) : AgentRaises(t))
    \/ RtFutureReturns \/ RtFutureRaises \/ RtTimeout
    \/ GenSectionDone \/ GenSectionFailed \/ GenFinish

SpecGen == InitGen /\ [][NextGen]_vars

(***************************************************************************)
(* Properties of the generation orchestrator and the runtime wrapper.      *)
(***************************************************************************)
FailedOutcomes == {"timeout", "invoke_error", "all_formats_failed"}

\* the Fill sections of the template, by the section kinds themselves
FillOfTemplate == SelectSeq(gen.template, LAMBDA sec : sec.section_type = "fill")

FailedCalls == {i \in 1..Len(gen.outcomes) : ~gen.outcomes[i].ok}

\* C4: when the runtime call fails for exactly one of the N Fill sections,
\* the draft still has N sections in template order, the failed one is
\* Partial with exactly one synthesized missing item describing the failure,
\* and every other section is what its own response yields.
C4_FailureIsolated ==
    (gen.pc = "done" /\ Cardinality(FailedCalls) = 1) =>
        /\ Len(gen.sections) = Len(FillOfTemplate)
        /\ \A i \in 1..Len(gen.sections) :
              /\ gen.sections[i].id = FillOfTemplate[i].id
              /\ IF i \in FailedCalls
                 THEN /\ gen.sections[i].status = "partial"
                      /\ Len(gen.sections[i].missing_items) = 1
                      /\ gen.sections[i].missing_items[1].id
                            = Append(FillOfTemplate[i].id, "agent_error")
                      /\ gen.sections[i].missing_items[1].question
                            = <<"agent failed", gen.outcomes[i].text>>
                 ELSE gen.sections[i]
                        = response_to_draft_section(gen.outcomes[i].text,
                                                    FillOfTemplate[i].id,
                                                    FillOfTemplate[i].title)

\* Two Fill sections, the first failed after a timeout, the second complete.
C4_Witness ==
    /\ gen.pc = "done" /\ Len(gen.sections) = 2
    /\ FailedCalls = {1} /\ gen.outcomes[1].text = "timeout"
    /\ gen.sections[2].status = "complete"

\* C5: the runtime is invoked once per Fill section, in template order, the
\* next call starting only after the current one returned or raised, never
\* for a Skip or Validator section; the draft has one section per Fill
\* section, same ids, same order.
C5_SequentialOneCallPerFillSection ==
    LET n == Len(gen.sections)
    IN  /\ Len(gen.events) \in {2 * n, 2 * n + 1}
        /\ n <= Len(FillOfTemplate)
        /\ \A i \in 1..n :
              /\ gen.events[2 * i - 1] = <<"call", FillOfTemplate[i].id>>
              /\ gen.events[2 * i][1] \in {"return", "raise"}
              /\ gen.events[2 * i][2] = FillOfTemplate[i].id
              /\ gen.sections[i].id = FillOfTemplate[i].id
        /\ Len(gen.events) = 2 * n + 1 =>
              /\ n < Len(FillOfTemplate)
              /\ gen.events[2 * n + 1] = <<"call", FillOfTemplate[n + 1].id>>
        /\ (rt.pc # "idle") <=> (Len(gen.events) = 2 * n + 1)
        /\ gen.pc = "done" => n = Len(FillOfTemplate)

\* A finished run over a template with a Skip section before a Fill section.
C5_Witness ==
    /\ gen.pc = "done" /\ Len(gen.template) = 2
    /\ gen.template[1].section_type = "skip" /\ Len(gen.sections) = 1

\* the attempts (worker threads) of logical call i
AttemptsOf(i) == {t \in 1..Len(threads) : threads[t].call = i}

\* C6: invoke_with_retry with retries = r >= 1 starts attempts 1..r one at a
\* time, returns the normalized text of the first successful attempt without
\* starting another, and raises the terminal error embedding the last
\* failure iff all r attempts failed.
C6_RetryLoop ==
    /\ \A t \in 1..Len(threads) :
          /\ threads[t].attempt \in 1..gen.retries
          /\ IF t = 1 \/ threads[t - 1].call # threads[t].call
             THEN threads[t].attempt = 1
             ELSE /\ threads[t].attempt = threads[t - 1].attempt + 1
                  /\ threads[t - 1].outcome \in FailedOutcomes
          /\ threads[t].outcome = "waiting" => (t = Len(threads) /\ rt.pc = "waiting")
    /\ rt.pc = "returned" =>
          /\ threads[Len(threads)].call = rt.call
          /\ threads[Len(threads)].outcome = "ok"
          /\ rt.response = response_to_text(threads[Len(threads)].raw)
    /\ rt.pc = "raised" =>
          /\ Cardinality(AttemptsOf(rt.call)) = rt.retries
          /\ \A t \in AttemptsOf(rt.call) : threads[t].outcome \in FailedOutcomes
          /\ rt.last_error = threads[Len(threads)].outcome
    /\ \A i \in 1..Len(gen.outcomes) :
          IF gen.outcomes[i].ok
          THEN \E t \in AttemptsOf(i) :
                  /\ threads[t].outcome = "ok"
                  /\ gen.outcomes[i].text = response_to_text(threads[t].raw)
                  /\ \A u \in AttemptsOf(i) : u <= t
          ELSE /\ Cardinality(AttemptsOf(i)) = gen.retries
               /\ \A t \in AttemptsOf(i) : threads[t].outcome \in FailedOutcomes
    /\ (rt.pc \in {"loop", "waiting"} /\ rt.attempt > rt.retries) =>
          (rt.pc = "loop" /\ \A t \in AttemptsOf(rt.call) : threads[t].outcome \in FailedOutcomes)

\* The second of two attempts succeeded after the first one failed.
C6_Witness ==
    /\ rt.pc = "returned" /\ rt.attempt = 2 /\ rt.retries = 2
    /\ threads[Len(threads) - 1].outcome = "all_formats_failed"

\* C7: while no shape is cached an attempt tries raw text, {input},
\* {messages} in this order and caches the first that does not raise; once
\* a shape is cached every later attempt sends exactly one payload, of the
\* cached shape, and its failure neither falls back nor clears the cache.
C7_PayloadShapeLearning ==
    /\ \A t \in 1..Len(threads) :
          /\ threads[t].writes_seen = 0 =>
                /\ threads[t].mode = "probe"
                /\ threads[t].sent = SubSeq(PAYLOAD_LABELS, 1, Len(threads[t].sent))
                /\ Len(threads[t].sent) >= 1
                /\ (threads[t].st = "done" /\ threads[t].ok) =>
                      \E w \in 1..Len(writes) :
                          /\ writes[w].thread = t
                          /\ writes[w].value = threads[t].sent[Len(threads[t].sent)]
          /\ threads[t].writes_seen > 0 =>
                /\ threads[t].mode = "cached"
                /\ threads[t].start_cache = writes[threads[t].writes_seen].value
                /\ threads[t].sent = <<threads[t].start_cache>>
                /\ \A w \in 1..Len(writes) : writes[w].thread # t
    /\ writes = <<>> => cache = "none"
    /\ writes # <<>> => cache = writes[Len(writes)].value /\ cache # "none"

\* An attempt sent its one payload in the cached shape {input: text}, the
\* collaborator raised, and the cache is as before.
C7_Witness ==
    \E t \in 1..Len(threads) :
        /\ threads[t].mode = "cached" /\ threads[t].start_cache = "input-dict"
        /\ threads[t].outcome = "invoke_error" /\ threads[t].sent = <<"input-dict">>
        /\ cache = "input-dict"

\* C8: the payload-shape cache is written at most once, and its value never
\* changes after the first write, also when abandoned attempts are still
\* running in the background.
C8_CacheWrittenAtMostOnce ==
    /\ Len(writes) <= 1
    /\ writes # <<>> => cache = writes[1].value

\* The wrapper has dealt with failed attempt t as the except branch of
\* invoke_with_retry prescribes: the next attempt of the same call follows,
\* or, after the last attempt, the call raises with this failure.
FailureHandled(t) ==
    LET th == threads[t]
    IN  IF th.attempt < gen.retries
        THEN \/ /\ t < Len(threads)
                /\ threads[t + 1].call = th.call
                /\ threads[t + 1].attempt = th.attempt + 1
             \/ /\ t = Len(threads) /\ rt.pc = "loop" /\ rt.call = th.call
                /\ rt.attempt = th.attempt + 1 /\ rt.last_error = th.outcome
        ELSE \/ /\ t = Len(threads) /\ rt.call = th.call
                /\ rt.pc \in {"loop", "raised"} /\ rt.last_error = th.outcome
             \/ /\ th.call <= Len(gen.outcomes)
                /\ gen.outcomes[th.call] = [ok |-> FALSE, text |-> th.outcome]

\* C9: an attempt whose call has not returned within the timeout is a failed
\* attempt, retried exactly like any other failure, and the wrapper moves on
\* without waiting for the abandoned call.
C9_TimeoutIsOrdinaryFailure ==
    \A t \in 1..Len(threads) :
        /\ threads[t].outcome \in FailedOutcomes => FailureHandled(t)
        /\ threads[t].outcome = "timeout" => ~(rt.pc = "waiting" /\ rt.cur = t)
        /\ (threads[t].st = "invoking" /\ ~(rt.pc = "waiting" /\ rt.cur = t))
              => threads[t].outcome = "timeout"

\* Attempt 1 timed out and its call is still running while attempt 2 is
\* already in flight.
C9_Witness ==
    /\ Len(threads) >= 2
    /\ threads[1].outcome = "timeout" /\ threads[1].st = "invoking"
    /\ threads[2].call = threads[1].call /\ threads[2].attempt = 2
    /\ threads[2].st = "invoking" /\ rt.pc = "waiting" /\ rt.cur = 2

\* C19: every section of the draft generate_draft returns, built from a
\* response or synthesized after a failure, has an evidence entry or a
\* missing item, and is Partial exactly when it has a missing item.
C19_EvidenceOrMissingAndStatus ==
    \A i \in 1..Len(gen.sections) :
        /\ gen.sections[i].evidence # <<>> \/ gen.sections[i].missing_items # <<>>
        /\ gen.sections[i].status = "partial" <=> gen.sections[i].missing_items # <<>>

\* A returned draft whose first section comes from a response without a JSON
\* object and whose second section was synthesized after a failed call.
C19_Witness ==
    /\ gen.pc = "done" /\ Len(gen.sections) = 2
    /\ gen.outcomes[1].ok /\ gen.outcomes[1].text = "P"
    /\ ~gen.outcomes[2].ok

(***************************************************************************)
(* invoke_with_retry on its own: one logical call, _invoke_with_timeout    *)
(* seen from the loop as a call that returns a text or raises.             *)
(***************************************************************************)
MaxBackoffRetries == 4    \* largest retries argument of the single call

AttemptErrors == {"timeout", "invoke_error", "all_formats_failed"}

InitRetry ==
    /\ ApplyIdle /\ CodecIdle /\ TemplateIdle /\ StoreIdle /\ MarkerIdle
    /\ gen = IdleGen /\ cache = "none" /\ writes = <<>> /\ threads = <<>>
    /\ \E retries \in 1..MaxBackoffRetries :
          rt = [pc |-> "loop", call |-> 1, attempt |-> 1, retries |-> retries,
                cur |-> 0, last_error |-> "none", response |-> "none", slept |-> <<>>]

\* loop head: the attempt is started
RetryAttemptStart ==
    /\ gen.pc = "idle" /\ rt.pc = "loop"
    /\ AttemptInRange(rt.attempt, rt.retries)
    /\ rt' = [rt EXCEPT !.pc = "waiting"]
    /\ UNCHANGED <<gen, cache, writes, threads, codec, tp, store, mk>> /\ UNCHANGED applyVars

\* _invoke_with_timeout returns: invoke_with_retry returns the response
RetryAttemptReturns ==
    /\ gen.pc = "idle" /\ rt.pc = "waiting"
    /\ \E result \in AgentResults :
          rt' = [rt EXCEPT !.pc = "returned", !.response = response_to_text(result)]
    /\ UNCHANGED <<gen, cache, writes, threads, codec, tp, store, mk>> /\ UNCHANGED applyVars

\* _invoke_with_timeout raises (TimeoutError or the exception of the call)
RetryAttemptRaises ==
    /\ gen.pc = "idle" /\ rt.pc = "waiting"
    /\ \E error \in AttemptErrors : rt' = OnAttemptFailed(rt, error)
    /\ UNCHANGED <<gen, cache, writes, threads, codec, tp, store, mk>> /\ UNCHANGED applyVars

NextRetry == RetryAttemptStart \/ RetryAttemptReturns \/ RetryAttemptRaises \/ RtExhausted

SpecRetry == InitRetry /\ [][NextRetry]_vars

(***************************************************************************)
(* Progress of generate_draft.  The control thread is a sequential program *)
(* that is never suspended for good: its next step is taken whenever one   *)
(* is possible, and future.result(timeout=...) returns when the timeout    *)
(* expires.  Nothing is assumed about the collaborator: a call to          *)
(* agent.invoke may never return.                                          *)
(***************************************************************************)
ControlStep ==
    \/ GenInvoke \/ RtAttemptStart \/ RtExhausted
    \/ RtFutureReturns \/ RtFutureRaises \/ RtTimeout
    \/ GenSectionDone \/ GenSectionFailed \/ GenFinish

SpecGenFair == SpecGen /\ WF_vars(ControlStep)

\* C26: after failed attempt k with k < retries invoke_with_retry sleeps
\* 0.5 * k seconds before attempt k + 1; it sleeps neither after a successful
\* attempt nor after the last failed one.  (slept lists the sleeps made, in
\* half seconds; attempt - 1 attempts have failed so far.)
C26_LinearBackoff ==
    rt.pc # "idle" =>
        /\ Len(rt.slept) = (IF rt.attempt - 1 < rt.retries - 1
                            THEN rt.attempt - 1 ELSE rt.retries - 1)
        /\ \A k \in 1..Len(rt.slept) : rt.slept[k] = k

\* A call with four attempts that all failed: three sleeps, of 0.5 s, 1 s
\* and 1.5 s, and none after the fourth failure.
C26_Witness ==
    /\ rt.pc = "raised" /\ rt.retries = 4 /\ rt.attempt = 5
    /\ rt.slept = <<1, 2, 3>>

\* C27: generate_draft ends with a DraftDocument of one section per Fill
\* section, whatever the calls to the collaborator do (return, raise, never
\* return), and at no time more than N * r attempts have been started, N
\* being the number of Fill sections and r the retry count.
C27_TerminatesWithinAttemptBound ==
    /\ [](Len(threads) <= Len(FillOfTemplate) * gen.retries)
    /\ <>(gen.pc = "done" /\ Len(gen.sections) = Len(FillOfTemplate))

\* A run over two Fill sections with two attempts each that has ended while
\* all four calls to the collaborator are still running.
C27_Witness ==
    /\ gen.pc = "done" /\ Len(FillOfTemplate) = 2 /\ gen.retries = 2
    /\ Len(threads) = 4
    /\ \A t \in 1..Len(threads) :
          threads[t].st = "invoking" /\ threads[t].outcome = "timeout"

(***************************************************************************)
(* Draft codec (draft_parser.py).  A draft text is a sequence of lines and *)
(* blocks: a heading line "## [ID:<id>] <title>", a fenced yaml block with *)
(* the mapping it holds, a run of body text, a blank line.                 *)
(***************************************************************************)
HeaderLine(id, title) == [k |-> "header", id |-> id, title |-> title, data |-> <<>>, text |-> <<>>]
YamlBlock(data)       == [k |-> "yaml", id |-> <<>>, title |-> <<>>, data |-> data, text |-> <<>>]
TextRun(text)         == [k |-> "text", id |-> <<>>, title |-> <<>>, data |-> <<>>, text |-> text]
BlankLine             == [k |-> "blank", id |-> <<>>, title |-> <<>>, data |-> <<>>, text |-> <<>>]

\* the mapping serialize_draft_markdown writes for one missing item
SerializedMissingItem(item) ==
    [id |-> item.id, question |-> item.question, section_id |-> item.section_id]

\* the metadata mapping of one section, as dumped into the yaml block
SerializedMetadata(section) ==
    [status |-> section.status,
     checkboxes |-> [i \in 1..Len(section.checkboxes) |->
                        [name |-> section.checkboxes[i].name,
                         checked |-> section.checkboxes[i].checked]],
     attachments |-> section.attachments,
     evidence |-> section.evidence,
     missing_items |-> [i \in 1..Len(section.missing_items) |->
                           SerializedMissingItem(section.missing_items[i])]]

\* the lines one section contributes to blocks
SerializedSection(section) ==
    <<HeaderLine(section.id, section.title), YamlBlock(SerializedMetadata(section)),
      BlankLine>>
    \o (IF Strip(section.body) = <<>> THEN <<BlankLine>> ELSE <<TextRun(Strip(section.body))>>)
    \o <<BlankLine>>

\* "\n".join(blocks).rstrip(): trailing blank lines go
RECURSIVE DropTrailingBlank(_)
DropTrailingBlank(lines) ==
    IF lines # <<>> /\ lines[Len(lines)].k = "blank"
    THEN DropTrailingBlank(SubSeq(lines, 1, Len(lines) - 1))
    ELSE lines

\* serialize_draft_markdown
serialize_draft_markdown(draft) ==
    DropTrailingBlank(Flatten([i \in 1..Len(draft) |-> SerializedSection(draft[i])]))

\* _SECTION_HEADER_RE matches the line: an id of [A-Za-z0-9_-]+ and a title
\* with at least one non-blank character
ValidIdText(id) == id # <<>> /\ \A i \in 1..Len(id) : id[i] \notin {"", " "}
IsSectionHeader(line) ==
    line.k = "header" /\ ValidIdText(line.id) /\ Strip(line.title) # <<>>

RECURSIVE HeaderPositionsFrom(_, _)
HeaderPositionsFrom(lines, i) ==
    IF i > Len(lines) THEN <<>>
    ELSE (IF IsSectionHeader(lines[i]) THEN <<i>> ELSE <<>>) \o HeaderPositionsFrom(lines, i + 1)

\* dict.get(key, default) on a yaml mapping
Get(mapping, key, default) == IF key \in DOMAIN mapping THEN mapping[key] ELSE default

\* draft_parser._parse_missing_items on a list of mappings that carry id and question
parse_missing_items(raw, section_id) ==
    [i \in 1..Len(raw) |->
        [id |-> raw[i].id,
         section_id |-> IF Get(raw[i], "section_id", <<>>) # <<>>
                        THEN raw[i].section_id ELSE section_id,
         question |-> raw[i].question,
         user_response |-> Get(raw[i], "user_response", "")]]

\* draft_parser._parse_checkboxes
parse_checkboxes(raw) ==
    [i \in 1..Len(raw) |-> [name |-> raw[i].name, checked |-> Get(raw[i], "checked", FALSE)]]

RequiredKeys == {"status", "checkboxes", "attachments", "evidence", "missing_items"}

\* _parse_metadata on the mapping yaml.safe_load returned: [ok, error, ...fields]
parse_metadata(data, section_id) ==
    IF ~(RequiredKeys \subseteq DOMAIN data) \/ data.status \notin {"complete", "partial"}
    THEN [ok |-> FALSE, error |-> "DraftParseError"]
    ELSE [ok |-> TRUE, status |-> data.status,
          checkboxes |-> parse_checkboxes(data.checkboxes),
          attachments |-> data.attachments, evidence |-> data.evidence,
          missing_items |-> parse_missing_items(data.missing_items, section_id)]

\* What _YAML_RE finds is a fenced yaml block; its content either loads to a
\* mapping ("yaml", the mapping in data), loads to something that is no
\* mapping ("yaml_scalar"), or makes yaml.safe_load raise ("yaml_bad").
YamlKinds == {"yaml", "yaml_scalar", "yaml_bad"}

\* chunk[body_start:].strip(): the text after the yaml block ("y" stands for
\* the text of a further fenced block)
RECURSIVE BodyAfter(_, _)
BodyAfter(chunk, i) ==
    IF i > Len(chunk) THEN <<>>
    ELSE (IF chunk[i].k = "text" THEN chunk[i].text
          ELSE IF chunk[i].k \in YamlKinds THEN <<"y">> ELSE <<"nl">>)
         \o BodyAfter(chunk, i + 1)

\* one iteration of the loop of parse_draft_text: [ok, error, section]; the
\* DraftSection constructor runs the model validator ensure_evidence_or_missing
ParseChunk(chunk) ==
    LET yamls == {i \in 1..Len(chunk) : chunk[i].k \in YamlKinds}
    IN  IF yamls = {} THEN [ok |-> FALSE, error |-> "DraftParseError"]
        ELSE LET y == CHOOSE i \in yamls : \A j \in yamls : i <= j
             IN  IF chunk[y].k = "yaml_bad" THEN [ok |-> FALSE, error |-> "YAMLError"]
                 ELSE IF chunk[y].k = "yaml_scalar"
                 THEN [ok |-> FALSE, error |-> "DraftParseError"]
                 ELSE LET meta == parse_metadata(chunk[y].data, chunk[1].id)
                      IN  IF ~meta.ok THEN [ok |-> FALSE, error |-> meta.error]
                          ELSE IF meta.evidence = <<>> /\ meta.missing_items = <<>>
                          THEN [ok |-> FALSE, error |-> "ValidationError"]
                          ELSE [ok |-> TRUE, error |-> "none",
                                section |-> [id |-> chunk[1].id,
                                             title |-> Strip(chunk[1].title),
                                             status |-> meta.status,
                                             checkboxes |-> meta.checkboxes,
                                             attachments |-> meta.attachments,
                                             evidence |-> meta.evidence,
                                             missing_items |-> meta.missing_items,
                                             body |-> Strip(BodyAfter(chunk, y + 1))]]

\* the chunks parse_draft_text cuts the text into, one per heading match
DraftChunks(lines) ==
    LET headers == HeaderPositionsFrom(lines, 1)
    IN  [i \in 1..Len(headers) |->
            SubSeq(lines, headers[i],
                   IF i + 1 <= Len(headers) THEN headers[i + 1] - 1 ELSE Len(lines))]

\* parse_draft_text: [ok, error, sections]; ok = FALSE stands for the
\* exception that leaves the function, error naming its type
parse_draft_text(lines) ==
    LET chunks == DraftChunks(lines)
        failed == {i \in 1..Len(chunks) : ~ParseChunk(chunks[i]).ok}
    IN  IF chunks = <<>>
        THEN [ok |-> FALSE, error |-> "DraftParseError", sections |-> <<>>]
        ELSE IF failed # {}
        THEN [ok |-> FALSE, sections |-> <<>>,
              error |-> ParseChunk(chunks[CHOOSE i \in failed : \A j \in failed : i <= j]).error]
        ELSE [ok |-> TRUE, error |-> "none",
              sections |-> [i \in 1..Len(chunks) |-> ParseChunk(chunks[i]).section]]

(***************************************************************************)
(* The codec as a state machine: a draft is written out and read back.     *)
(***************************************************************************)
MaxCodecSections == 2   \* sections in a draft given to the codec

CodecMissing(id) ==
    { <<>>,
      <<[id |-> <<"m1">>, section_id |-> id, question |-> <<"q1">>, user_response |-> ""]>>,
      <<[id |-> <<"m1">>, section_id |-> id, question |-> <<"q1">>, user_response |-> "r1"]>> }

\* DraftSections that satisfy the model validator (evidence or a missing item)
CodecSections ==
    { [id |-> id, title |-> <<"A">>, status |-> status,
       checkboxes |-> IF id = <<"a">> THEN <<[name |-> "k1", checked |-> TRUE]>> ELSE <<>>,
       attachments |-> IF id = <<"a">> THEN <<"f1">> ELSE <<>>,
       evidence |-> evidence, missing_items |-> missing, body |-> body] :
        id \in {<<"a">>, <<"b">>}, status \in {"complete", "partial"},
        evidence \in {<<>>, <<"e1">>},
        missing \in CodecMissing(<<"a">>) \cup CodecMissing(<<"b">>),
        body \in {<<"x">>, <<"sp", "x", "nl">>} }

CodecDrafts ==
    { d \in SeqsUpTo({sec \in CodecSections :
                         /\ sec.evidence # <<>> \/ sec.missing_items # <<>>
                         /\ \A i \in 1..Len(sec.missing_items) :
                               sec.missing_items[i].section_id = sec.id},
                     MaxCodecSections) : d # <<>> }

InitCodec ==
    /\ ApplyIdle /\ GenIdle /\ TemplateIdle /\ StoreIdle /\ MarkerIdle
    /\ \E d \in CodecDrafts : codec = [pc |-> "draft", draft |-> d, text |-> <<>>, parsed |-> <<>>]

\* write_run_artifacts: draft.md = serialize_draft_markdown(draft)
Serialize ==
    /\ codec.pc = "draft"
    /\ codec' = [codec EXCEPT !.pc = "serialized", !.text = serialize_draft_markdown(codec.draft)]
    /\ UNCHANGED applyVars /\ UNCHANGED genVars /\ UNCHANGED <<tp, store, mk>>

\* parse_draft_markdown on the file written
ParseDraft ==
    /\ codec.pc = "serialized"
    /\ codec' = [codec EXCEPT !.pc = "parsed", !.parsed = parse_draft_text(codec.text)]
    /\ UNCHANGED applyVars /\ UNCHANGED genVars /\ UNCHANGED <<tp, store, mk>>

NextCodec == Serialize \/ ParseDraft

SpecCodec == InitCodec /\ [][NextCodec]_vars

\* C10: for every draft whose sections carry evidence or a missing item,
\* parse(serialize(d)) equals d field for field, missing items with their
\* id, section_id, question and user_response, bodies compared after trim.
C10_RoundTrip ==
    codec.pc = "parsed" =>
        /\ codec.parsed.ok
        /\ Len(codec.parsed.sections) = Len(codec.draft)
        /\ \A i \in 1..Len(codec.draft) :
              codec.parsed.sections[i] = [codec.draft[i] EXCEPT !.body = Strip(@)]

(***************************************************************************)
(* The parser on draft texts as a reviewer may leave them.                 *)
(***************************************************************************)
MaxTextSections == 2   \* headings in a draft text handed to the parser

YamlScalar == [k |-> "yaml_scalar", id |-> <<>>, title |-> <<>>, data |-> <<>>, text |-> <<>>]
YamlBad    == [k |-> "yaml_bad", id |-> <<>>, title |-> <<>>, data |-> <<>>, text |-> <<>>]

GoodMetadata ==
    [status |-> "complete", checkboxes |-> <<>>, attachments |-> <<>>,
     evidence |-> <<"e1">>, missing_items |-> <<>>]

\* what may stand between one heading and the next
TextSectionBodies ==
    { <<YamlBlock(GoodMetadata), TextRun(<<"x">>)>>,
      <<TextRun(<<"x">>)>>,
      <<TextRun(<<"x">>), YamlBlock(GoodMetadata), TextRun(<<"x">>)>>,
      <<YamlBlock(GoodMetadata), YamlBlock(GoodMetadata)>>,
      <<YamlBlock([status |-> "complete", checkboxes |-> <<>>, attachments |-> <<>>,
                   evidence |-> <<"e1">>])>>,
      <<YamlBlock([GoodMetadata EXCEPT !.status = "unknown"]), TextRun(<<"x">>)>>,
      <<YamlBlock([GoodMetadata EXCEPT !.evidence = <<>>]), TextRun(<<"x">>)>>,
      <<YamlBad, TextRun(<<"x">>)>>,
      <<YamlScalar>> }

TextSections ==
    { <<HeaderLine(id, <<"A">>)>> \o body : id \in {<<"a">>, <<"b">>}, body \in TextSectionBodies }

DraftTexts ==
    { pre \o Flatten(secs) : pre \in {<<>>, <<TextRun(<<"x">>)>>},
                             secs \in SeqsUpTo(TextSections, MaxTextSections) }

InitParse ==
    /\ ApplyIdle /\ GenIdle /\ TemplateIdle /\ StoreIdle /\ MarkerIdle
    /\ \E t \in DraftTexts : codec = [pc |-> "text", draft |-> <<>>, text |-> t, parsed |-> <<>>]

\* apply_cmd: parsed_draft = parse_draft_markdown(draft)
ParseText ==
    /\ codec.pc = "text"
    /\ codec' = [codec EXCEPT !.pc = "read", !.parsed = parse_draft_text(codec.text)]
    /\ UNCHANGED applyVars /\ UNCHANGED genVars /\ UNCHANGED <<tp, store, mk>>

NextParse == ParseText

SpecParse == InitParse /\ [][NextParse]_vars

\* The section opened by a heading has exactly one fenced metadata block, the
\* block comes right after the heading line, it holds a mapping with the five
\* keys, and its status is complete or partial.
SectionWellFormed(chunk) ==
    /\ Cardinality({i \in 1..Len(chunk) : chunk[i].k \in YamlKinds}) = 1
    /\ Len(chunk) >= 2 /\ chunk[2].k = "yaml"
    /\ RequiredKeys \subseteq DOMAIN chunk[2].data
    /\ chunk[2].data.status \in {"complete", "partial"}

\* C11: a draft text is accepted only if every section has exactly one
\* metadata block immediately after its heading, a mapping with the five keys
\* and a status of complete or partial; any other section makes the parse raise.
C11_AcceptsOnlyWellFormedSections ==
    (codec.pc = "read" /\ codec.parsed.ok) =>
        \A i \in 1..Len(DraftChunks(codec.text)) : SectionWellFormed(DraftChunks(codec.text)[i])

\* C12: a draft text that is not accepted is rejected with DraftParseError;
\* no other error type leaves the parser.
C12_OnlyDraftParseErrorEscapes ==
    (codec.pc = "read" /\ ~codec.parsed.ok) => codec.parsed.error = "DraftParseError"

(***************************************************************************)
(* Template parsers and validators (template_parser.py for docx,           *)
(* template_parser_markdown.py for markdown).  A docx table is one column  *)
(* of single-paragraph cells.  A validation error is [kind, id].           *)
(***************************************************************************)
\* template_parser._looks_like_marker: the heading text holds "[FILL]",
\* "[SKIP]", "[VALIDATOR]" or "[ID:" (the source never calls it)
looks_like_marker(h) == h \in {"hFa", "hFb", "hSc", "hVa", "hFt", "hFm"}

\* extract_checkbox_tokens: list(dict.fromkeys(_CHECKBOX_RE.findall(text)))
RECURSIVE CheckboxTokensFrom(_, _, _)
CheckboxTokensFrom(text, i, found) ==
    IF i > Len(text) THEN found
    ELSE IF text[i] \in CheckTokens /\ ~Contains(found, CheckTokenName(text[i]))
    THEN CheckboxTokensFrom(text, i + 1, Append(found, CheckTokenName(text[i])))
    ELSE CheckboxTokensFrom(text, i + 1, found)

extract_checkbox_tokens(text) == CheckboxTokensFrom(text, 1, <<>>)

\* TemplateSection(...) as the parsers build it
TemplateSection(parsed, marker_text, heading_index, body_text) ==
    [id |-> parsed.section_id, title |-> parsed.title, section_type |-> parsed.section_type,
     marker_text |-> marker_text, heading_index |-> heading_index,
     body_text |-> body_text, checkbox_tokens |-> extract_checkbox_tokens(body_text)]

\* loop of parse_markdown_template over the heading matches
RECURSIVE MdSectionsFrom(_, _, _, _)
MdSectionsFrom(text, hm, idx, used_ids) ==
    IF idx > Len(hm) THEN <<>>
    ELSE LET parsed == parse_heading_marker(text[hm[idx]], FALSE, used_ids)
             body_end == IF idx + 1 <= Len(hm) THEN hm[idx + 1] - 1 ELSE Len(text)
         IN  IF ~parsed.ok THEN MdSectionsFrom(text, hm, idx + 1, parsed.used_ids)
             ELSE <<TemplateSection(parsed, text[hm[idx]], idx - 1,
                                    Strip(Slice(text, hm[idx], body_end)))>>
                  \o MdSectionsFrom(text, hm, idx + 1, parsed.used_ids)

\* parse_markdown_template: [sections, parser_errors]
parse_markdown_template(text) ==
    [sections |-> MdSectionsFrom(text, HeadingMatches(text), 1, {}),
     parser_errors |-> <<>>]

\* table_to_text
table_to_text(block) ==
    Join(SelectSeq([c \in 1..Len(block.cells) |-> Strip(block.cells[c])],
                   LAMBDA line : line # <<>>), <<"nl">>)

\* flush_current: the sections list after the flush
flush_current(sections, current_section, body_lines) ==
    IF current_section = <<>> THEN sections
    ELSE LET body_text == Strip(Join(SelectSeq(body_lines, LAMBDA line : Strip(line) # <<>>),
                                     <<"nl">>))
         IN  Append(sections,
                    [current_section[1] EXCEPT !.body_text = body_text,
                                               !.checkbox_tokens = extract_checkbox_tokens(body_text)])

\* loop of parse_template over the blocks; current_section is <<>> for None
RECURSIVE DocxParseFrom(_, _, _, _, _, _)
DocxParseFrom(blocks, i, sections, current_section, body_lines, used_ids) ==
    IF i > Len(blocks) THEN flush_current(sections, current_section, body_lines)
    ELSE IF is_heading(blocks[i])
    THEN LET flushed == flush_current(sections, current_section, body_lines)
             parsed  == parse_heading_marker(blocks[i].text[1], TRUE, used_ids)
         IN  IF ~parsed.ok
             THEN DocxParseFrom(blocks, i + 1, flushed, <<>>, <<>>, parsed.used_ids)
             ELSE DocxParseFrom(blocks, i + 1, flushed,
                                <<TemplateSection(parsed, blocks[i].text[1], i - 1, <<>>)>>,
                                <<>>, parsed.used_ids)
    ELSE IF ~blocks[i].table
    THEN IF current_section # <<>> /\ Strip(blocks[i].text) # <<>>
         THEN DocxParseFrom(blocks, i + 1, sections, current_section,
                            Append(body_lines, Strip(blocks[i].text)), used_ids)
         ELSE DocxParseFrom(blocks, i + 1, sections, current_section, body_lines, used_ids)
    ELSE IF current_section # <<>> /\ table_to_text(blocks[i]) # <<>>
         THEN DocxParseFrom(blocks, i + 1, sections, current_section,
                            Append(body_lines, table_to_text(blocks[i])), used_ids)
         ELSE DocxParseFrom(blocks, i + 1, sections, current_section, body_lines, used_ids)

\* parse_template: [sections, parser_errors]
parse_template(blocks) ==
    [sections |-> DocxParseFrom(blocks, 1, <<>>, <<>>, <<>>, {}), parser_errors |-> <<>>]

ValidationError(kind, id) == [kind |-> kind, id |-> id]

\* the duplicate loop of validate_template: one error per repeated occurrence
RECURSIVE DuplicateErrorsFrom(_, _, _)
DuplicateErrorsFrom(sections, i, seen) ==
    IF i > Len(sections) THEN <<>>
    ELSE (IF sections[i].id \in seen THEN <<ValidationError("duplicate", sections[i].id)>>
          ELSE <<>>)
         \o DuplicateErrorsFrom(sections, i + 1, seen \cup {sections[i].id})

NoFillErrors(sections) ==
    IF \E i \in 1..Len(sections) : sections[i].section_type = "fill" THEN <<>>
    ELSE <<ValidationError("no_fill", <<>>)>>

\* validate_template (docx)
validate_template(parsed) ==
    IF parsed.sections = <<>>
    THEN Append(parsed.parser_errors, ValidationError("no_sections", <<>>))
    ELSE parsed.parser_errors \o DuplicateErrorsFrom(parsed.sections, 1, {})
         \o NoFillErrors(parsed.sections)

\* the token loop of validate_markdown_template
RECURSIVE MissingTokenErrorsFrom(_, _)
MissingTokenErrorsFrom(sections, i) ==
    IF i > Len(sections) THEN <<>>
    ELSE (IF sections[i].section_type = "fill"
             /\ ~Contains(sections[i].body_text, SECTION_CONTENT_TOKEN)
          THEN <<ValidationError("missing_token", sections[i].id)>> ELSE <<>>)
         \o MissingTokenErrorsFrom(sections, i + 1)

\* validate_markdown_template without the substitution-token check
validate_markdown_template_NoTokenCheck(parsed) ==
    IF parsed.sections = <<>>
    THEN Append(parsed.parser_errors, ValidationError("no_sections", <<>>))
    ELSE parsed.parser_errors \o NoFillErrors(parsed.sections)

\* validate_markdown_template
validate_markdown_template(parsed) ==
    IF parsed.sections = <<>>
    THEN Append(parsed.parser_errors, ValidationError("no_sections", <<>>))
    ELSE parsed.parser_errors \o NoFillErrors(parsed.sections)
         \o MissingTokenErrorsFrom(parsed.sections, 1)

(***************************************************************************)
(* Parsing and validating a template, as a state machine.                  *)
(***************************************************************************)
MaxTpSections == 3   \* headings in a template given to the parsers

TpMdSections ==
    { <<h>> \o body : h \in {"hFa", "hSc", "hVa", "hN", "hFt", "hFm"},
                      body \in {<<"nl", "T", "nl">>, <<"nl", "x", "C1", "nl">>} }

TpDocxSections ==
    { <<HeadingPara(h)>> \o body :
        h \in {"hFa", "hSc", "hVa", "hN", "hFt", "hFm", "hE"},
        body \in {<<Para(<<"T">>)>>, <<Para(<<"x", "C1">>), TableOf(<<<<"x">>, <<>>>>)>>} }

TpTemplates(format) ==
    IF format = "docx"
    THEN { <<Para(<<"x">>)>> \o Flatten(p) : p \in SeqsUpTo(TpDocxSections, MaxTpSections) }
    ELSE { <<"x", "nl">> \o Flatten(p) : p \in SeqsUpTo(TpMdSections, MaxTpSections) }

InitTemplate ==
    /\ ApplyIdle /\ GenIdle /\ CodecIdle /\ StoreIdle /\ MarkerIdle
    /\ \E format \in {"markdown", "docx"} : \E template \in TpTemplates(format) :
          tp = [IdleTp EXCEPT !.pc = "template", !.format = format, !.template = template]

\* parse_template / parse_markdown_template
ParseTemplate ==
    /\ tp.pc = "template"
    /\ LET parsed == IF tp.format = "docx" THEN parse_template(tp.template)
                     ELSE parse_markdown_template(tp.template)
       IN  tp' = [tp EXCEPT !.pc = "parsed", !.sections = parsed.sections,
                            !.parser_errors = parsed.parser_errors]
    /\ UNCHANGED applyVars /\ UNCHANGED genVars /\ UNCHANGED <<codec, store, mk>>

\* validate_template / validate_markdown_template on the parsed template
ValidateTemplate ==
    /\ tp.pc = "parsed"
    /\ LET parsed == [sections |-> tp.sections, parser_errors |-> tp.parser_errors]
       IN  tp' = [tp EXCEPT !.pc = "validated",
                            !.errors = IF tp.format = "docx" THEN validate_template(parsed)
                                       ELSE validate_markdown_template(parsed)]
    /\ UNCHANGED applyVars /\ UNCHANGED genVars /\ UNCHANGED <<codec, store, mk>>

NextTemplate == ParseTemplate \/ ValidateTemplate

SpecTemplate == InitTemplate /\ [][NextTemplate]_vars

(***************************************************************************)
(* Properties of the template parsers and validators.                      *)
(***************************************************************************)
TpParsed == tp.pc \in {"parsed", "validated"}

SharedIdPairs ==
    {<<i, j>> \in (1..Len(tp.sections)) \X (1..Len(tp.sections)) :
        i < j /\ tp.sections[i].id = tp.sections[j].id}

\* C13 as stated: whatever the headings of the template (explicit [ID:...]
\* tags or ids derived from titles, either format), the ids of the sections of
\* one parse pass are pairwise distinct.
C13_IdsPairwiseDistinct == TpParsed => SharedIdPairs = {}

\* C13 amended: a section whose heading has no explicit [ID:...] tag gets an
\* id distinct from the ids of all earlier sections of the pass; two sections
\* share an id only when the later one carries an explicit tag.
C13_DerivedIdsDistinct ==
    TpParsed => \A pair \in SharedIdPairs : extract_id(tp.sections[pair[2]].marker_text) # <<>>

\* Three untagged headings with the same title: the ids are a, a_2, a_3; and
\* an explicit id that follows an equal derived one is kept as it is.
C13_Witness ==
    /\ TpParsed
    /\ \/ /\ Len(tp.sections) = 3
          /\ \A i \in 1..3 : tp.sections[i].marker_text = "hFt"
          /\ tp.sections[2].id = <<"a", "2">> /\ tp.sections[3].id = <<"a", "3">>
       \/ /\ Len(tp.sections) = 3
          /\ tp.sections[1].marker_text = "hFa" /\ tp.sections[2].marker_text = "hFt"
          /\ tp.sections[2].id = <<"a", "2">>

HasError(kind) == \E i \in 1..Len(tp.errors) : tp.errors[i].kind = kind

\* C14: in both formats validation returns a 'Duplicate section ID' error
\* if and only if two parsed sections share an id.
C14_DuplicateErrorIffSharedId ==
    tp.pc = "validated" => (HasError("duplicate") <=> SharedIdPairs # {})

\* a heading of the template that looks like a marker and whose id tag does
\* not parse ('[FILL][ID bad] ...')
MalformedHeadings ==
    IF tp.format = "docx"
    THEN {i \in 1..Len(tp.template) : is_heading(tp.template[i]) /\ tp.template[i].text = <<"hFm">>}
    ELSE {i \in 1..Len(tp.template) : tp.template[i] = "hFm"}

\* C20: a template with a malformed marker heading parses without raising,
\* the parser records a 'Malformed marker heading' message in parser_errors,
\* validation reports it, and the headings after it are parsed.
C20_MalformedMarkerRecorded ==
    (TpParsed /\ MalformedHeadings # {}) =>
        /\ \E i \in 1..Len(tp.parser_errors) : tp.parser_errors[i].kind = "malformed"
        /\ tp.pc = "validated" => HasError("malformed")

(***************************************************************************)
(* From template to output document: the template is parsed and validated, *)
(* generate_draft drafts its Fill sections, and the draft is applied to    *)
(* the same template (cli.py, draft and apply commands).                   *)
(***************************************************************************)
MaxPipeSections == 2   \* headings in a template taken through the pipeline

PipeMdSections ==
    { <<h>> \o body : h \in {"hFa", "hFb", "hSc", "hFt"},
                      body \in {<<"nl", "T", "nl">>, <<"nl", "x", "C1", "nl">>,
                                <<"nl", "x", "T", "C1", "nl">>} }

PipeDocxSections ==
    { <<HeadingPara(h)>> \o body :
        h \in {"hFa", "hFb", "hSc", "hN"},
        body \in {<<Para(<<"T">>)>>, <<Para(<<"x", "C1">>)>>, <<TableOf(<<<<"x">>, <<>>>>)>>, <<>>} }

\* a template, with or without the idempotency marker of an earlier apply
PipeTemplates(format) ==
    IF format = "docx"
    THEN { <<Para(<<"x">>)>> \o Flatten(p) \o tail :
             p \in SeqsUpTo(PipeDocxSections, MaxPipeSections),
             tail \in {<<>>, <<Para(<<APPLIED_MARKER>>)>>} }
    ELSE { <<"x", "nl">> \o Flatten(p) \o tail :
             p \in SeqsUpTo(PipeMdSections, MaxPipeSections),
             tail \in {<<>>, <<APPLIED_MARKER, "nl">>} }

\* what one invoke_with_retry gives generate_draft: a response text, or the
\* exception raised after the last attempt
CollaboratorOutcomes ==
    { [ok |-> TRUE, text |-> response_to_text(result)] : result \in AgentResults }
    \cup { [ok |-> FALSE, text |-> "timeout"] }

\* the DraftSection appended for one Fill section: try branch or except branch
GeneratedSection(section, outcome) ==
    IF outcome.ok THEN response_to_draft_section(outcome.text, section.id, section.title)
    ELSE AgentErrorStub(section, outcome.text)

InitPipeline ==
    /\ ApplyIdle /\ GenIdle /\ CodecIdle /\ StoreIdle /\ MarkerIdle
    /\ \E format \in {"markdown", "docx"} : \E template \in PipeTemplates(format) :
          tp = [IdleTp EXCEPT !.pc = "template", !.format = format, !.template = template]

\* generate_draft on the parsed template, after the validation gate of the
\* draft command let it through: one DraftSection per Fill section, in order
GenerateDraft ==
    /\ tp.pc = "validated" /\ tp.errors = <<>>
    /\ gen.pc = "idle"
    /\ LET fill == FillSections(tp.sections)
       IN  \E outcomes \in [1..Len(fill) -> CollaboratorOutcomes] :
              gen' = [IdleGen EXCEPT
                        !.pc = "done", !.template = tp.sections, !.retries = 1,
                        !.idx = Len(fill) + 1,
                        !.sections = [i \in 1..Len(fill) |-> GeneratedSection(fill[i], outcomes[i])],
                        !.outcomes = outcomes]
    /\ UNCHANGED <<rt, cache, writes, threads, codec, tp, store, mk>> /\ UNCHANGED applyVars

\* apply_draft_to_template on the template and the generated draft
ApplyGenerated ==
    /\ gen.pc = "done" /\ res = "none"
    /\ \E force \in BOOLEAN :
        LET r == apply_draft_to_template(tp.format, tp.template, gen.sections, force)
        IN  /\ out' = IF r.written THEN [exists |-> TRUE, content |-> r.text] ELSE out
            /\ res' = r.status
            /\ report' = r.unresolved
            /\ lastForce' = force
    /\ fmt' = tp.format /\ tmpl' = tp.template /\ lastDraft' = gen.sections
    /\ UNCHANGED <<applied, gen, rt, cache, writes, threads, codec, tp, store, mk>>

NextPipeline == ParseTemplate \/ ValidateTemplate \/ GenerateDraft \/ ApplyGenerated

SpecPipeline == InitPipeline /\ [][NextPipeline]_vars

(***************************************************************************)
(* Properties of the pipeline.                                             *)
(***************************************************************************)
TemplateHasMarker ==
    IF tp.format = "docx" THEN document_contains_marker(tp.template, APPLIED_MARKER)
    ELSE Contains(tp.template, APPLIED_MARKER)

\* the generated draft was applied without force to a validated template
\* that holds no idempotency marker
GeneratedApplied ==
    /\ tp.pc = "validated" /\ tp.errors = <<>> /\ ~TemplateHasMarker
    /\ gen.pc = "done" /\ res # "none" /\ ~lastForce

\* a docx section whose heading is directly followed by a paragraph or a
\* table (a table of the model always has cells)
HasBodyBlock(section) ==
    LET n == section.heading_index + 2
    IN  n <= Len(tp.template) /\ ~is_heading(tp.template[n])

MissingItem(id, section_id, question, user_response) ==
    [id |-> id, section_id |-> section_id, question |-> question,
     user_response |-> user_response]

ItemKey(item) == <<item.id, item.section_id>>

\* load_context: blocks without a section_id or without a question are skipped
load_context(file) ==
    SelectSeq(file, LAMBDA block : block.section_id # <<>> /\ block.question # <<>>)

\* write_context: one block per item, in order
write_context(items) == items

\* merged[key] = item on an insertion-ordered dict held as a list
RECURSIVE DictPut(_, _)
DictPut(dict, item) ==
    IF dict = <<>> THEN <<item>>
    ELSE IF ItemKey(Head(dict)) = ItemKey(item) THEN <<item>> \o Tail(dict)
    ELSE <<Head(dict)>> \o DictPut(Tail(dict), item)

DictHas(dict, key) == \E i \in 1..Len(dict) : ItemKey(dict[i]) = key
DictGet(dict, key) == dict[CHOOSE i \in 1..Len(dict) : ItemKey(dict[i]) = key]

\* {(item.id, item.section_id): item for item in existing}
RECURSIVE DictOf(_)
DictOf(items) ==
    IF items = <<>> THEN <<>> ELSE DictPut(DictOf(SubSeq(items, 1, Len(items) - 1)), items[Len(items)])

\* MergeStep that lets the regenerated item overwrite the stored response
MergeStep_Overwrite(merged, item) == DictPut(merged, item)

\* one iteration of the loop over new in merge_missing_items
MergeStep(merged, item) ==
    IF DictHas(merged, ItemKey(item)) /\ DictGet(merged, ItemKey(item)).user_response # ""
    THEN DictPut(merged, [item EXCEPT !.user_response =
                                         DictGet(merged, ItemKey(item)).user_response])
    ELSE DictPut(merged, item)

RECURSIVE MergeLoop(_, _)
MergeLoop(merged, new) ==
    IF new = <<>> THEN merged ELSE MergeLoop(MergeStep(merged, Head(new)), Tail(new))

\* the order of the strings used as ids
IdRank(id) == CASE id = <<"a">> -> 1 [] id = <<"b">> -> 2 [] id = <<"m1">> -> 3 [] OTHER -> 4

\* (section_id, id) of x sorts before that of y
SortKeyLess(x, y) ==
    \/ IdRank(x.section_id) < IdRank(y.section_id)
    \/ IdRank(x.section_id) = IdRank(y.section_id) /\ IdRank(x.id) < IdRank(y.id)

\* sorted(values, key=(section_id, id)), stable
RECURSIVE InsertByKey(_, _)
InsertByKey(sorted, item) ==
    IF sorted = <<>> THEN <<item>>
    ELSE IF SortKeyLess(item, Head(sorted)) THEN <<item>> \o sorted
    ELSE <<Head(sorted)>> \o InsertByKey(Tail(sorted), item)

RECURSIVE SortedByKey(_)
SortedByKey(items) ==
    IF items = <<>> THEN <<>>
    ELSE InsertByKey(SortedByKey(SubSeq(items, 1, Len(items) - 1)), items[Len(items)])

\* merge_missing_items
merge_missing_items(existing, new) == SortedByKey(MergeLoop(DictOf(existing), new))

(***************************************************************************)
(* Draft runs over the context store, as a state machine.                  *)
(***************************************************************************)
MaxNewItems == 2   \* missing items collected from one draft
MaxRuns == 2       \* draft runs over one context file

\* missing items a draft can carry (generate_draft takes id, question and
\* user_response from the collaborator's response)
NewItems ==
    { MissingItem(<<"m1">>, <<"a">>, <<"q1">>, ""),
      MissingItem(<<"m1">>, <<"a">>, <<"q2">>, "r1"),
      MissingItem(<<"m1">>, <<"a">>, <<>>, ""),
      MissingItem(<<"m2">>, <<"b">>, <<"q1">>, "") }

InitStore ==
    /\ ApplyIdle /\ GenIdle /\ CodecIdle /\ TemplateIdle /\ MarkerIdle
    /\ store = IdleStore

\* draft_cmd: load_context, merge with the missing items of the new draft,
\* write_context
DraftRun ==
    /\ store.runs < MaxRuns
    /\ \E new \in SeqsUpTo(NewItems, MaxNewItems) :
          LET existing == load_context(store.file)
              merged   == merge_missing_items(existing, new)
          IN  store' = [file |-> write_context(merged), before |-> store.file,
                        existing |-> existing, new |-> new, merged |-> merged,
                        runs |-> store.runs + 1]
    /\ UNCHANGED applyVars /\ UNCHANGED genVars /\ UNCHANGED <<codec, tp, mk>>

\* the user fills in a blank user_response in the context file
UserAnswers ==
    /\ \E i \in 1..Len(store.file) :
          /\ store.file[i].user_response = ""
          /\ store' = [store EXCEPT !.file[i].user_response = "r2"]
    /\ UNCHANGED applyVars /\ UNCHANGED genVars /\ UNCHANGED <<codec, tp, mk>>

NextStore == DraftRun \/ UserAnswers

SpecStore == InitStore /\ [][NextStore]_vars

\* the last item of a list with the given key
LastWithKey(items, key) ==
    items[CHOOSE i \in 1..Len(items) :
             /\ ItemKey(items[i]) = key
             /\ \A j \in 1..Len(items) : ItemKey(items[j]) = key => j <= i]

C16_StoreKeepsKeysAndResponses ==
    store.runs > 0 =>
        \A i \in 1..Len(store.before) :
            /\ DictHas(store.file, ItemKey(store.before[i]))
            /\ store.before[i].user_response # "" =>
                  DictGet(store.file, ItemKey(store.before[i])).user_response
                     = store.before[i].user_response

(***************************************************************************)
(* parse_heading_marker called on its own, with the caller's used-id set.  *)
(***************************************************************************)
MaxSuffix == 3     \* largest numeric suffix among the ids already in use
MaxCalls  == 2     \* calls made with one used-id set

\* ids a caller's set can hold: slugs and their suffixed forms
MarkerIds ==
    UNION { {s} \cup {Append(s, ToString(k)) : k \in 2..MaxSuffix} :
               s \in {<<"a">>, <<"notes">>} }

InitMarker ==
    /\ ApplyIdle /\ GenIdle /\ CodecIdle /\ TemplateIdle /\ StoreIdle
    /\ \E U \in SUBSET MarkerIds :
          mk = [pc |-> "ready", heading |-> "none", fallback_fill |-> FALSE,
                before |-> U, used_ids |-> U, result |-> <<>>, calls |-> 0]

\* one call of parse_heading_marker(heading_text, fallback_fill=..., used_ids=...)
ParseHeading ==
    /\ mk.pc \in {"ready", "called"}
    /\ mk.calls < MaxCalls
    /\ \E h \in HeadingSyms, fallback_fill \in BOOLEAN :
          LET r == parse_heading_marker(h, fallback_fill, mk.used_ids)
          IN  mk' = [pc |-> "called", heading |-> h, fallback_fill |-> fallback_fill,
                     before |-> mk.used_ids, used_ids |-> r.used_ids,
                     result |-> [ok |-> r.ok, section_type |-> r.section_type,
                                 section_id |-> r.section_id, title |-> r.title],
                     calls |-> mk.calls + 1]
    /\ UNCHANGED applyVars /\ UNCHANGED genVars /\ UNCHANGED <<codec, tp, store>>

NextMarker == ParseHeading

SpecMarker == InitMarker /\ [][NextMarker]_vars

\* C24: for a heading without an explicit id tag parse_heading_marker returns
\* the slug s of the clean title when s is not in the used-id set U, else s_k
\* for the smallest k >= 2 with s_k not in U; on return the set is U plus the
\* returned id; a heading that is not a marker leaves U unchanged.
C24_DerivedIdAndRegistration ==
    mk.pc = "called" =>
        LET U == mk.before
            s == slugify(clean_title(mk.heading))
        IN  /\ (mk.result.ok /\ extract_id(mk.heading) = <<>>) =>
                  /\ IF s \notin U THEN mk.result.section_id = s
                     ELSE \E k \in 2..(Cardinality(U) + 2) :
                             /\ mk.result.section_id = Append(s, ToString(k))
                             /\ Append(s, ToString(k)) \notin U
                             /\ \A j \in 2..(k - 1) : Append(s, ToString(j)) \in U
                  /\ mk.used_ids = U \cup {mk.result.section_id}
            /\ ~mk.result.ok => mk.used_ids = U

\* A call on an untagged heading whose slug and whose first suffixed form
\* were both taken: the id returned carries the suffix 3 and is registered.
C24_Witness ==
    /\ mk.pc = "called" /\ mk.result.ok
    /\ mk.heading = "hN" /\ mk.fallback_fill
    /\ {<<"notes">>, <<"notes", "2">>} \subseteq mk.before
    /\ mk.result.section_id = <<"notes", "3">>
    /\ mk.used_ids # mk.before

====
